---- MODULE Spec2Model ----
(***************************************************************************)
(* Pre-trade risk gating engine of TraderMCP (src/risk/risk_manager.py)    *)
(* and the order tool that calls it (src/tools/orders.py).                 *)
(*                                                                         *)
(* Numbers.  The code computes with Python floats; the model keeps every   *)
(* amount an integer and states each "x / d * 100 > limit" comparison by   *)
(* cross-multiplication, which is the exact (rational) value of the same   *)
(* expression.  A division whose divisor is zero raises ZeroDivisionError  *)
(* in Python and is modelled as the exception, never as a number.          *)
(*                                                                         *)
(* Optional values.  A Python value that may be None, or a dict key that   *)
(* may be absent, is a sequence of length 0 (None / absent) or 1.          *)
(***************************************************************************)
EXTENDS Integers, Sequences, FiniteSets, TLC

VARIABLES
    cfg,        \* RiskManager.config, read once at construction
    call,       \* arguments of the last check_all call (<<>> before the first)
    ret,        \* outcome of the last check_all call
    evals,      \* the check_all calls in progress on the shared manager
    rl,         \* a result list handed to the severity resolver
    hb,         \* has_blocking_issues(rl), once computed
    gw,         \* get_warnings(rl), once computed
    pc,         \* where the place_order coroutine of tools/orders.py stands
    req,        \* its arguments
    acct,       \* its local account_summary
    book,       \* its local current_positions
    check_price,    \* its local check_price
    risk_checks,    \* its local risk_checks: the outcome of check_all
    broker_account,     \* the account summary the broker would report now
    broker_positions,   \* the positions the broker would report now
    submitted,  \* orders handed to the broker, oldest first
    audit,      \* entries written by _log_trading_operation, oldest first
    resp,       \* the dictionary place_order returned
    environ,    \* the environment Config() reads IB_ACCOUNT and IB_PORT from
    _config,    \* the module global _config of config.py
    got,        \* how the last get_config call ended (returned or raised)
    kline_data, \* the rows of the kline_data table
    now,        \* the day datetime.now() falls on
    wrapper     \* the with_kline_cache wrapper call in progress, its locals

engineVars == <<call, ret, evals>>
severityVars == <<rl, hb, gw>>
orderVars == <<pc, req, acct, book, check_price, risk_checks, submitted,
               audit, resp>>
brokerVars == <<broker_account, broker_positions>>
configVars == <<environ, _config, got>>
cacheVars == <<kline_data, now, wrapper>>
vars == <<cfg, engineVars, severityVars, orderVars, brokerVars, configVars,
          cacheVars>>

None == <<>>
Some(v) == <<v>>

\* Python truthiness of an optional number: None and 0 are both falsy.
Truthy(x) == x # None /\ x[1] # 0

Abs(x) == IF x < 0 THEN -x ELSE x

----------------------------------------------------------------------------
(* Bounds of the model *)

MaxPositions == 2
MaxResults == 4
MaxEvaluations == 2

----------------------------------------------------------------------------
(* Configuration defaults, src/config.py *)

risk_max_single_position_pct == 20
risk_max_total_position_pct == 85
risk_max_drawdown_pct == 10
risk_max_option_position_pct == 10
risk_high_volatility_threshold == 50
\* risk_bond_collateral_multiplier = 0.95, kept as the fraction 95 / 100
bond_multiplier_num == 95
bond_multiplier_den == 100
BondSymbols == {"SGOV", "BIL", "SHV"}

\* The two boolean switches vary with the environment the server runs in.
Configs ==
    [risk_allow_margin : BOOLEAN, risk_require_stop_loss : BOOLEAN]

----------------------------------------------------------------------------
(* RiskLevel and RiskCheckResult *)

PASS == "pass"
WARNING == "warning"
BLOCK == "block"
RiskLevel == {PASS, WARNING, BLOCK}

NoDetails == [kind |-> "none"]

RiskCheckResult(name, level, message, details) ==
    [check_name |-> name, level |-> level, message |-> message,
     details |-> details]

\* An exception leaving a check instead of a result.
Raise(e) == [exc |-> e]
IsRaise(x) == "exc" \in DOMAIN x

----------------------------------------------------------------------------
(* Reading the account summary: account_summary.get(tag, {}).get("value", d) *)

TagValue(account_summary, tag, default) ==
    IF account_summary[tag] = None THEN default ELSE account_summary[tag][1]

\* (value / divisor) * 100 > limit, for divisor # 0
PctExceeds(value, divisor, limit) ==
    IF divisor > 0 THEN value * 100 > limit * divisor
                   ELSE value * 100 < limit * divisor

\* (value / divisor) * 100 < -limit, for divisor # 0
PctBelowNeg(value, divisor, limit) ==
    IF divisor > 0 THEN value * 100 < (0 - limit) * divisor
                   ELSE value * 100 > (0 - limit) * divisor

\* The percentage itself, kept as the fraction <<numerator, denominator>>.
Pct(value, divisor) == <<value * 100, divisor>>

RECURSIVE SumAbsValue(_)
\* sum(abs(pos.position * pos.avgCost) for pos in positions)
SumAbsValue(positions) ==
    IF positions = <<>> THEN 0
    ELSE Abs(Head(positions).position * Head(positions).avgCost)
         + SumAbsValue(Tail(positions))

----------------------------------------------------------------------------
(* Individual risk checks *)

\* Variant: the stop loss is demanded of SELL orders too.
_check_stop_loss_any_action(config, action, stop_loss) ==
    IF ~config.risk_require_stop_loss
    THEN RiskCheckResult("stop_loss_check", PASS,
                         "Stop loss not required by configuration", NoDetails)
    ELSE IF ~Truthy(stop_loss)
    THEN RiskCheckResult("stop_loss_check", BLOCK,
                         "Stop loss is required for all BUY orders",
                         [kind |-> "stop_loss", required |-> TRUE,
                          provided |-> FALSE])
    ELSE RiskCheckResult("stop_loss_check", PASS,
                         "Stop loss check passed", NoDetails)

_check_stop_loss(config, action, stop_loss) ==
    IF ~config.risk_require_stop_loss
    THEN RiskCheckResult("stop_loss_check", PASS,
                         "Stop loss not required by configuration", NoDetails)
    ELSE IF action = "BUY" /\ ~Truthy(stop_loss)
    THEN RiskCheckResult("stop_loss_check", BLOCK,
                         "Stop loss is required for all BUY orders",
                         [kind |-> "stop_loss", required |-> TRUE,
                          provided |-> FALSE])
    ELSE RiskCheckResult("stop_loss_check", PASS,
                         IF Truthy(stop_loss)
                            THEN "Stop loss check passed"
                            ELSE "SELL order (no stop loss required)",
                         NoDetails)

\* Variant: excess liquidity of exactly half the net liquidation blocks.
_check_margin_usage_le(config, account_summary) ==
    LET excess_liquidity == TagValue(account_summary, "ExcessLiquidity", 0)
        net_liquidation == TagValue(account_summary, "NetLiquidation", 1)
    IN  IF ~config.risk_allow_margin
           /\ 2 * excess_liquidity <= net_liquidation
        THEN RiskCheckResult("margin_check", BLOCK,
                             "Margin trading is not allowed",
                             [kind |-> "margin",
                              excess_liquidity |-> excess_liquidity,
                              net_liquidation |-> net_liquidation])
        ELSE RiskCheckResult("margin_check", PASS,
                             "No margin usage detected", NoDetails)

\* Variant: `net_liquidation or 1`, a zero value is replaced by 1 as well.
_check_margin_usage_or_1(config, account_summary) ==
    LET excess_liquidity == TagValue(account_summary, "ExcessLiquidity", 0)
        reported == TagValue(account_summary, "NetLiquidation", 1)
        net_liquidation == IF reported = 0 THEN 1 ELSE reported
    IN  IF ~config.risk_allow_margin
           /\ 2 * excess_liquidity < net_liquidation
        THEN RiskCheckResult("margin_check", BLOCK,
                             "Margin trading is not allowed",
                             [kind |-> "margin",
                              excess_liquidity |-> excess_liquidity,
                              net_liquidation |-> net_liquidation])
        ELSE RiskCheckResult("margin_check", PASS,
                             "No margin usage detected", NoDetails)

_check_margin_usage(config, account_summary) ==
    LET excess_liquidity == TagValue(account_summary, "ExcessLiquidity", 0)
        net_liquidation == TagValue(account_summary, "NetLiquidation", 1)
    IN  IF ~config.risk_allow_margin
           /\ 2 * excess_liquidity < net_liquidation
        THEN RiskCheckResult("margin_check", BLOCK,
                             "Margin trading is not allowed",
                             [kind |-> "margin",
                              excess_liquidity |-> excess_liquidity,
                              net_liquidation |-> net_liquidation])
        ELSE RiskCheckResult("margin_check", PASS,
                             "No margin usage detected", NoDetails)

RECURSIVE SymbolValue(_, _, _)
\* The loop of _check_position_size: every matching position overwrites
\* current_value, so the last match in list order is the one that counts.
SymbolValue(positions, symbol, current_value) ==
    IF positions = <<>> THEN current_value
    ELSE SymbolValue(Tail(positions), symbol,
                     IF Head(positions).symbol = symbol
                        THEN Head(positions).position * Head(positions).avgCost
                        ELSE current_value)

\* Variant: a position of exactly the limit blocks (>= for >).
_check_position_size_ge(config, symbol, action, quantity, price, account_summary, current_positions) ==
    LET net_liquidation == TagValue(account_summary, "NetLiquidation", 0)
        current_value == SymbolValue(current_positions, symbol, 0)
        order_value == IF Truthy(price) THEN quantity * price[1] ELSE 0
        new_value == IF action = "BUY"
                        THEN Abs(current_value) + order_value
                        ELSE Abs(current_value) - order_value
    IN  IF net_liquidation = 0
        THEN RiskCheckResult("position_size_check", BLOCK,
                             "Cannot determine account value", NoDetails)
        ELSE IF (IF net_liquidation > 0
                    THEN new_value * 100
                             >= risk_max_single_position_pct * net_liquidation
                    ELSE new_value * 100
                             <= risk_max_single_position_pct * net_liquidation)
        THEN RiskCheckResult("position_size_check", BLOCK,
                             "Position would exceed limit",
                             [kind |-> "position_size_block",
                              symbol |-> symbol,
                              new_position_pct |-> Pct(new_value, net_liquidation),
                              limit_pct |-> risk_max_single_position_pct,
                              new_value |-> new_value,
                              net_liquidation |-> net_liquidation])
        ELSE RiskCheckResult("position_size_check", PASS,
                             "Position size OK",
                             [kind |-> "position_size",
                              position_pct |-> Pct(new_value, net_liquidation)])

_check_position_size(config, symbol, action, quantity, price, account_summary, current_positions) ==
    LET net_liquidation == TagValue(account_summary, "NetLiquidation", 0)
        current_value == SymbolValue(current_positions, symbol, 0)
        order_value == IF Truthy(price) THEN quantity * price[1] ELSE 0
        new_value == IF action = "BUY"
                        THEN Abs(current_value) + order_value
                        ELSE Abs(current_value) - order_value
    IN  IF net_liquidation = 0
        THEN RiskCheckResult("position_size_check", BLOCK,
                             "Cannot determine account value", NoDetails)
        ELSE IF PctExceeds(new_value, net_liquidation,
                           risk_max_single_position_pct)
        THEN RiskCheckResult("position_size_check", BLOCK,
                             "Position would exceed limit",
                             [kind |-> "position_size_block",
                              symbol |-> symbol,
                              new_position_pct |-> Pct(new_value, net_liquidation),
                              limit_pct |-> risk_max_single_position_pct,
                              new_value |-> new_value,
                              net_liquidation |-> net_liquidation])
        ELSE RiskCheckResult("position_size_check", PASS,
                             "Position size OK",
                             [kind |-> "position_size",
                              position_pct |-> Pct(new_value, net_liquidation)])

\* Variant: the order's value is added for SELL orders as well.
_check_total_position_limit_any_action(config, action, quantity, price, account_summary, current_positions) ==
    LET net_liquidation == TagValue(account_summary, "NetLiquidation", 0)
        total_position_value ==
            SumAbsValue(current_positions)
            + (IF Truthy(price) THEN quantity * price[1] ELSE 0)
    IN  IF net_liquidation = 0
        THEN Raise("ZeroDivisionError")
        ELSE IF PctExceeds(total_position_value, net_liquidation,
                           risk_max_total_position_pct)
        THEN RiskCheckResult("total_position_check", BLOCK,
                             "Total position would exceed limit",
                             [kind |-> "total_position_block",
                              total_position_pct |->
                                  Pct(total_position_value, net_liquidation),
                              limit_pct |-> risk_max_total_position_pct])
        ELSE RiskCheckResult("total_position_check", PASS,
                             "Total position OK",
                             [kind |-> "total_position",
                              total_position_pct |->
                                  Pct(total_position_value, net_liquidation)])

_check_total_position_limit(config, action, quantity, price, account_summary, current_positions) ==
    LET net_liquidation == TagValue(account_summary, "NetLiquidation", 0)
        total_position_value ==
            SumAbsValue(current_positions)
            + (IF action = "BUY" /\ Truthy(price)
                  THEN quantity * price[1] ELSE 0)
    IN  IF net_liquidation = 0
        THEN Raise("ZeroDivisionError")
        ELSE IF PctExceeds(total_position_value, net_liquidation,
                           risk_max_total_position_pct)
        THEN RiskCheckResult("total_position_check", BLOCK,
                             "Total position would exceed limit",
                             [kind |-> "total_position_block",
                              total_position_pct |->
                                  Pct(total_position_value, net_liquidation),
                              limit_pct |-> risk_max_total_position_pct])
        ELSE RiskCheckResult("total_position_check", PASS,
                             "Total position OK",
                             [kind |-> "total_position",
                              total_position_pct |->
                                  Pct(total_position_value, net_liquidation)])

RECURSIVE DrawdownLoop(_, _, _)
\* The for loop of _check_max_drawdown: the first matching position that
\* breaches the limit returns WARNING; a matching position of zero average
\* cost raises on the division.
DrawdownLoop(positions, symbol, current_price) ==
    IF positions = <<>>
    THEN RiskCheckResult("drawdown_check", PASS,
                         "Drawdown within acceptable limits", NoDetails)
    ELSE LET pos == Head(positions)
         IN  IF pos.symbol # symbol
             THEN DrawdownLoop(Tail(positions), symbol, current_price)
             ELSE IF pos.avgCost = 0
             THEN Raise("ZeroDivisionError")
             ELSE IF PctBelowNeg(current_price - pos.avgCost, pos.avgCost,
                                 risk_max_drawdown_pct)
             THEN RiskCheckResult("drawdown_check", WARNING,
                                  "Position exceeds max drawdown",
                                  [kind |-> "drawdown",
                                   symbol |-> symbol,
                                   drawdown_pct |->
                                       Pct(current_price - pos.avgCost,
                                           pos.avgCost),
                                   avg_cost |-> pos.avgCost,
                                   current_price |-> current_price])
             ELSE DrawdownLoop(Tail(positions), symbol, current_price)

\* Variant: a drawdown beyond the limit is reported as BLOCK.
_check_max_drawdown_blocking(config, symbol, current_price, current_positions) ==
    IF ~Truthy(current_price)
    THEN RiskCheckResult("drawdown_check", PASS,
                         "No price provided for drawdown check", NoDetails)
    ELSE LET r == DrawdownLoop(current_positions, symbol, current_price[1])
         IN  IF ~IsRaise(r) /\ r.level = WARNING
             THEN [r EXCEPT !.level = BLOCK]
             ELSE r

_check_max_drawdown(config, symbol, current_price, current_positions) ==
    IF ~Truthy(current_price)
    THEN RiskCheckResult("drawdown_check", PASS,
                         "No price provided for drawdown check", NoDetails)
    ELSE DrawdownLoop(current_positions, symbol, current_price[1])

\* Variant: an implied volatility equal to the threshold warns too.
_check_volatility_ge(config, symbol, option_details) ==
    IF option_details # None
       /\ option_details[1].implied_volatility # None
       /\ option_details[1].implied_volatility[1]
              >= risk_high_volatility_threshold
    THEN RiskCheckResult("volatility_check", WARNING,
                         "High implied volatility detected",
                         [kind |-> "volatility",
                          implied_volatility |->
                              option_details[1].implied_volatility[1]])
    ELSE RiskCheckResult("volatility_check", PASS,
                         "Volatility check passed", NoDetails)

_check_volatility(config, symbol, option_details) ==
    IF option_details # None
       /\ option_details[1].implied_volatility # None
       /\ option_details[1].implied_volatility[1]
              > risk_high_volatility_threshold
    THEN RiskCheckResult("volatility_check", WARNING,
                         "High implied volatility detected",
                         [kind |-> "volatility",
                          implied_volatility |->
                              option_details[1].implied_volatility[1]])
    ELSE RiskCheckResult("volatility_check", PASS,
                         "Volatility check passed", NoDetails)

_check_liquidity(symbol) ==
    RiskCheckResult("liquidity_check", PASS,
                    "Liquidity check passed (requires implementation with volume data)",
                    NoDetails)

IsOptionPosition(pos) == pos.secType = "OPT"
IsBondPosition(pos) == pos.symbol \in BondSymbols

\* Variant: any position in the symbol counts as cover, whatever its
\* security type.
NakedOptionChecks_any_sec_type(config, symbol, quantity, od, account_summary, current_positions) ==
    IF od.right = "C"
    THEN LET has_underlying ==
                 \E i \in 1..Len(current_positions) :
                     /\ current_positions[i].symbol = symbol
                     /\ current_positions[i].position >= quantity * 100
         IN  IF ~has_underlying
             THEN << RiskCheckResult("naked_call_check", BLOCK,
                         "Naked call selling is prohibited. Must own underlying shares for covered call.",
                         [kind |-> "naked_call",
                          required_shares |-> quantity * 100]) >>
             ELSE << RiskCheckResult("covered_call_check", PASS,
                         "Covered call: sufficient underlying shares owned",
                         NoDetails) >>
    ELSE IF od.right = "P"
    THEN LET cash_balance == TagValue(account_summary, "CashBalance", 0)
             bond_value ==
                 SumAbsValue(SelectSeq(current_positions, IsBondPosition))
             available_scaled == cash_balance * bond_multiplier_den
                                 + bond_value * bond_multiplier_num
             required_collateral == quantity * od.strike * 100
         IN  IF available_scaled < required_collateral * bond_multiplier_den
             THEN << RiskCheckResult("naked_put_collateral", BLOCK,
                         "Insufficient collateral for naked put",
                         [kind |-> "naked_put",
                          available |-> <<available_scaled, bond_multiplier_den>>,
                          required |-> required_collateral,
                          cash |-> cash_balance,
                          bond_value |-> bond_value]) >>
             ELSE << RiskCheckResult("naked_put_collateral", PASS,
                         "Sufficient collateral for naked put", NoDetails) >>
    ELSE << >>

\* Variant: collateral exactly equal to the requirement is refused.
NakedOptionChecks_le(config, symbol, quantity, od, account_summary, current_positions) ==
    IF od.right = "C"
    THEN LET has_underlying ==
                 \E i \in 1..Len(current_positions) :
                     /\ current_positions[i].symbol = symbol
                     /\ current_positions[i].secType = "STK"
                     /\ current_positions[i].position >= quantity * 100
         IN  IF ~has_underlying
             THEN << RiskCheckResult("naked_call_check", BLOCK,
                         "Naked call selling is prohibited. Must own underlying shares for covered call.",
                         [kind |-> "naked_call",
                          required_shares |-> quantity * 100]) >>
             ELSE << RiskCheckResult("covered_call_check", PASS,
                         "Covered call: sufficient underlying shares owned",
                         NoDetails) >>
    ELSE IF od.right = "P"
    THEN LET cash_balance == TagValue(account_summary, "CashBalance", 0)
             bond_value ==
                 SumAbsValue(SelectSeq(current_positions, IsBondPosition))
             available_scaled == cash_balance * bond_multiplier_den
                                 + bond_value * bond_multiplier_num
             required_collateral == quantity * od.strike * 100
         IN  IF available_scaled <= required_collateral * bond_multiplier_den
             THEN << RiskCheckResult("naked_put_collateral", BLOCK,
                         "Insufficient collateral for naked put",
                         [kind |-> "naked_put",
                          available |-> <<available_scaled, bond_multiplier_den>>,
                          required |-> required_collateral,
                          cash |-> cash_balance,
                          bond_value |-> bond_value]) >>
             ELSE << RiskCheckResult("naked_put_collateral", PASS,
                         "Sufficient collateral for naked put", NoDetails) >>
    ELSE << >>

\* The naked-option part of _check_option_risks (action = SELL only).
NakedOptionChecks(config, symbol, quantity, od, account_summary, current_positions) ==
    IF od.right = "C"
    THEN LET has_underlying ==
                 \E i \in 1..Len(current_positions) :
                     /\ current_positions[i].symbol = symbol
                     /\ current_positions[i].secType = "STK"
                     /\ current_positions[i].position >= quantity * 100
         IN  IF ~has_underlying
             THEN << RiskCheckResult("naked_call_check", BLOCK,
                         "Naked call selling is prohibited. Must own underlying shares for covered call.",
                         [kind |-> "naked_call",
                          required_shares |-> quantity * 100]) >>
             ELSE << RiskCheckResult("covered_call_check", PASS,
                         "Covered call: sufficient underlying shares owned",
                         NoDetails) >>
    ELSE IF od.right = "P"
    THEN LET cash_balance == TagValue(account_summary, "CashBalance", 0)
             bond_value ==
                 SumAbsValue(SelectSeq(current_positions, IsBondPosition))
             \* both sides of the comparison times bond_multiplier_den
             available_scaled == cash_balance * bond_multiplier_den
                                 + bond_value * bond_multiplier_num
             required_collateral == quantity * od.strike * 100
         IN  IF available_scaled < required_collateral * bond_multiplier_den
             THEN << RiskCheckResult("naked_put_collateral", BLOCK,
                         "Insufficient collateral for naked put",
                         [kind |-> "naked_put",
                          available |-> <<available_scaled, bond_multiplier_den>>,
                          required |-> required_collateral,
                          cash |-> cash_balance,
                          bond_value |-> bond_value]) >>
             ELSE << RiskCheckResult("naked_put_collateral", PASS,
                         "Sufficient collateral for naked put", NoDetails) >>
    ELSE << >>

\* Variant: no early return for missing option details; reading a field of
\* the absent details raises.
_check_option_risks_unguarded(config, symbol, action, quantity, option_details, account_summary, current_positions) ==
    IF option_details = None
    THEN << Raise("AttributeError") >>
    ELSE
    LET od == option_details[1]
        net_liquidation == TagValue(account_summary, "NetLiquidation", 0)
        current_option_value ==
            SumAbsValue(SelectSeq(current_positions, IsOptionPosition))
        option_price == IF od.price = None THEN 0 ELSE od.price[1]
        new_option_value == current_option_value + quantity * option_price * 100
    IN  IF net_liquidation = 0
        THEN << Raise("ZeroDivisionError") >>
        ELSE
        << IF PctExceeds(new_option_value, net_liquidation,
                         risk_max_option_position_pct)
           THEN RiskCheckResult("option_position_limit", BLOCK,
                                "Option position would exceed limit",
                                [kind |-> "option_limit",
                                 option_pct |->
                                     Pct(new_option_value, net_liquidation)])
           ELSE RiskCheckResult("option_position_limit", PASS,
                                "Option position OK", NoDetails) >>
        \o (IF action = "SELL"
               THEN NakedOptionChecks(config, symbol, quantity, od,
                                      account_summary, current_positions)
               ELSE << >>)

\* Variant: the current option value is summed over every position, stock
\* included.
_check_option_risks_all_positions(config, symbol, action, quantity, option_details, account_summary, current_positions) ==
    IF option_details = None
    THEN << RiskCheckResult("option_details_check", BLOCK,
                            "Option details required for option trading",
                            NoDetails) >>
    ELSE
    LET od == option_details[1]
        net_liquidation == TagValue(account_summary, "NetLiquidation", 0)
        current_option_value ==
            SumAbsValue(current_positions)
        option_price == IF od.price = None THEN 0 ELSE od.price[1]
        new_option_value == current_option_value + quantity * option_price * 100
    IN  IF net_liquidation = 0
        THEN << Raise("ZeroDivisionError") >>
        ELSE
        << IF PctExceeds(new_option_value, net_liquidation,
                         risk_max_option_position_pct)
           THEN RiskCheckResult("option_position_limit", BLOCK,
                                "Option position would exceed limit",
                                [kind |-> "option_limit",
                                 option_pct |->
                                     Pct(new_option_value, net_liquidation)])
           ELSE RiskCheckResult("option_position_limit", PASS,
                                "Option position OK", NoDetails) >>
        \o (IF action = "SELL"
               THEN NakedOptionChecks(config, symbol, quantity, od,
                                      account_summary, current_positions)
               ELSE << >>)

\* Returns a list of results, or the one-element list of the exception that
\* left the function (it is raised before anything is appended).
_check_option_risks(config, symbol, action, quantity, option_details, account_summary, current_positions) ==
    IF option_details = None
    THEN << RiskCheckResult("option_details_check", BLOCK,
                            "Option details required for option trading",
                            NoDetails) >>
    ELSE
    LET od == option_details[1]
        net_liquidation == TagValue(account_summary, "NetLiquidation", 0)
        current_option_value ==
            SumAbsValue(SelectSeq(current_positions, IsOptionPosition))
        option_price == IF od.price = None THEN 0 ELSE od.price[1]
        new_option_value == current_option_value + quantity * option_price * 100
    IN  IF net_liquidation = 0
        THEN << Raise("ZeroDivisionError") >>
        ELSE
        << IF PctExceeds(new_option_value, net_liquidation,
                         risk_max_option_position_pct)
           THEN RiskCheckResult("option_position_limit", BLOCK,
                                "Option position would exceed limit",
                                [kind |-> "option_limit",
                                 option_pct |->
                                     Pct(new_option_value, net_liquidation)])
           ELSE RiskCheckResult("option_position_limit", PASS,
                                "Option position OK", NoDetails) >>
        \o (IF action = "SELL"
               THEN NakedOptionChecks(config, symbol, quantity, od,
                                      account_summary, current_positions)
               ELSE << >>)

----------------------------------------------------------------------------
(* check_all *)

\* The state of check_all's body: the local list `results`, and whether an
\* exception has left the function (the list then stays as it was when the
\* exception was raised and is never returned).
Started == [raised |-> FALSE, results |-> << >>]

\* results.append(out) / results.extend(out), out being the value of a check
\* (a result, a list of results, or the exception it raised).
Then(st, out) ==
    IF st.raised THEN st
    ELSE IF Len(out) = 0 THEN st
    ELSE IF IsRaise(out[1]) THEN [st EXCEPT !.raised = TRUE]
    ELSE [st EXCEPT !.results = @ \o out]

check_all(config, operation, symbol, action, quantity, price, stop_loss, account_summary, current_positions, contract_type, option_details) ==
    LET common ==
            IF operation = "place_order"
            THEN
              LET s1 == IF contract_type = "STK"
                        THEN Then(Started,
                                  << _check_stop_loss(config, action, stop_loss) >>)
                        ELSE Started
                  s2 == Then(s1, << _check_margin_usage(config, account_summary) >>)
                  s3 == Then(s2, << _check_position_size(config, symbol, action,
                                        quantity, price, account_summary,
                                        current_positions) >>)
                  s4 == Then(s3, << _check_total_position_limit(config, action,
                                        quantity, price, account_summary,
                                        current_positions) >>)
                  s5 == Then(s4, << _check_volatility(config, symbol,
                                                      option_details) >>)
              IN  Then(s5, << _check_liquidity(symbol) >>)
            ELSE Started
        option ==
            IF contract_type = "OPT"
            THEN Then(common,
                      _check_option_risks(config, symbol, action, quantity,
                                          option_details, account_summary,
                                          current_positions))
            ELSE common
    IN  IF action = "SELL"
        THEN Then(option, << _check_max_drawdown(config, symbol, price,
                                                 current_positions) >>)
        ELSE option

\* Variant: anything that is not PASS counts as blocking.
has_blocking_issues_not_pass(results) ==
    \E i \in 1..Len(results) : results[i].level # PASS

\* Variant: only the first result is looked at.
has_blocking_issues_first(results) ==
    results # << >> /\ results[1].level = BLOCK

has_blocking_issues(results) ==
    \E i \in 1..Len(results) : results[i].level = BLOCK

IsWarning(r) == r.level = WARNING

\* Variant: everything that is not PASS is returned as a warning.
get_warnings_not_pass(results) ==
    SelectSeq(results, LAMBDA r : r.level # PASS)

\* Variant: only the first warning is kept.
get_warnings_first(results) ==
    LET w == SelectSeq(results, IsWarning)
    IN  IF w = << >> THEN << >> ELSE << w[1] >>

get_warnings(results) == SelectSeq(results, IsWarning)

----------------------------------------------------------------------------
(* Inputs of the engine *)

Symbols == {"AAPL"}
Actions == {"BUY", "SELL"}
Operations == {"place_order", "modify_order"}
ContractTypes == {"STK", "OPT"}
Quantities == {1, 50}
Prices == {None, Some(100), Some(150)}
StopLosses == {None, Some(140)}

Position(symbol, secType, position, avgCost) ==
    [symbol |-> symbol, secType |-> secType, position |-> position,
     avgCost |-> avgCost]

PositionRecords ==
    { Position("AAPL", "STK", 100, 150),    \* 15,000 of the order's symbol
      Position("AAPL", "OPT", -2, 500),     \* short option, same underlying
      Position("AAPL", "STK", 99, 0),       \* 99 shares at zero average cost
      Position("AAPL", "OPT", 100, 5),      \* 100 long option contracts
      Position("SGOV", "STK", 50, 100),     \* 5,000 of a bond-like ETF
      Position("MSFT", "STK", 800, 100) }   \* 80,000 of another symbol

RECURSIVE SeqsUpTo(_, _)
SeqsUpTo(S, n) ==
    IF n = 0 THEN { << >> }
    ELSE LET shorter == SeqsUpTo(S, n - 1)
         IN  shorter \cup { Append(q, x) : q \in shorter, x \in S }

PositionBooks == SeqsUpTo(PositionRecords, MaxPositions)

Account(nl, el, cash) ==
    [NetLiquidation |-> nl, ExcessLiquidity |-> el, CashBalance |-> cash]

AccountSummaries ==
    { Account(Some(100000), Some(60000), Some(5000)),
      Account(Some(100000), Some(40000), Some(10000)),
      Account(Some(100000), Some(50000), Some(5000)),
      Account(Some(0), Some(0), Some(5000)),
      Account(None, None, None) }

OptionDetails(right, strike, price, iv) ==
    [right |-> right, strike |-> strike, price |-> price,
     implied_volatility |-> iv]

OptionDetailsSet ==
    { None,
      Some(OptionDetails("C", 100, Some(5), None)),
      Some(OptionDetails("P", 100, Some(90), Some(60))),
      Some(OptionDetails("P", 100, Some(5), Some(50))) }

Calls ==
    [operation : Operations, symbol : Symbols, action : Actions,
     quantity : Quantities, price : Prices, stop_loss : StopLosses,
     account_summary : AccountSummaries, current_positions : PositionBooks,
     contract_type : ContractTypes, option_details : OptionDetailsSet]

----------------------------------------------------------------------------
(* The engine: one RiskManager, evaluated any number of times *)

NotYet == [raised |-> FALSE, results |-> << >>]

\* The callers that may be inside check_all of the one manager at a time.
Procs == 1..MaxEvaluations

\* Position of a caller past the last statement of check_all.
Done == 9

\* A caller that has not called yet.
NoEvaluation ==
    [args |-> << >>, step |-> 0, st |-> NotYet, overlapped |-> FALSE,
     reused |-> FALSE]

EvalsIdle == evals = [p \in Procs |-> NoEvaluation]

NoRequest == [reason |-> ""]
NoResponse == [returned |-> FALSE]

OrderIdle ==
    /\ pc = "idle"
    /\ req = NoRequest
    /\ acct = Account(None, None, None)
    /\ book = << >>
    /\ check_price = None
    /\ risk_checks = NotYet
    /\ submitted = << >>
    /\ audit = << >>
    /\ resp = NoResponse

\* The environment with neither IB_ACCOUNT nor IB_PORT set gives the field
\* defaults of Config: ib_account "" and ib_port 7497.
DefaultEnviron == [IB_ACCOUNT |-> "", IB_PORT |-> "7497"]

\* get_config has not been called
NotCalled == [called |-> FALSE]

ConfigIdle ==
    /\ environ = DefaultEnviron
    /\ _config = None
    /\ got = NotCalled

\* No wrapper call has been made
NoWrapperCall == [pc |-> "idle"]

CacheIdle ==
    /\ kline_data = {}
    /\ now = 1
    /\ wrapper = NoWrapperCall

BrokerIdle ==
    /\ broker_account = Account(None, None, None)
    /\ broker_positions = << >>

SeverityIdle ==
    /\ rl = << >>
    /\ hb = None
    /\ gw = None

Init ==
    /\ cfg \in Configs
    /\ call = << >>
    /\ ret = NotYet
    /\ EvalsIdle
    /\ SeverityIdle
    /\ OrderIdle
    /\ ConfigIdle
    /\ CacheIdle
    /\ BrokerIdle

\* One check_all call, whole: the arguments are chosen, the checks run in
\* order, and the call returns its list or raises.
Evaluate ==
    /\ call = << >>
    /\ \E c \in Calls :
          /\ call' = << c >>
          /\ ret' = check_all(cfg, c.operation, c.symbol, c.action, c.quantity,
                              c.price, c.stop_loss, c.account_summary,
                              c.current_positions, c.contract_type,
                              c.option_details)
    /\ UNCHANGED <<cfg, configVars, cacheVars, evals, severityVars, orderVars, brokerVars>>

\* The caller has consumed the outcome; the manager keeps nothing of the call.
Return ==
    /\ call # << >>
    /\ call' = << >>
    /\ ret' = NotYet
    /\ UNCHANGED <<cfg, configVars, cacheVars, evals, severityVars, orderVars, brokerVars>>

Next == Evaluate \/ Return

Spec == Init /\ [][Next]_vars

----------------------------------------------------------------------------
(* Several check_all calls on the one shared manager *)

EvaluationCall(operation, action, quantity, price, stop_loss, account_summary, current_positions, contract_type, option_details) ==
    [operation |-> operation, symbol |-> "AAPL", action |-> action,
     quantity |-> quantity, price |-> price, stop_loss |-> stop_loss,
     account_summary |-> account_summary,
     current_positions |-> current_positions,
     contract_type |-> contract_type, option_details |-> option_details]

EvaluationCalls ==
    { \* stock BUY without stop loss: six results
      EvaluationCall("place_order", "BUY", 1, Some(150), None,
                     Account(Some(100000), Some(60000), Some(5000)),
                     << Position("AAPL", "STK", 100, 150) >>, "STK", None),
      \* SELL of a put: eight results, BLOCK, WARNING and PASS among them
      EvaluationCall("place_order", "SELL", 1, Some(100), None,
                     Account(Some(100000), Some(40000), Some(10000)),
                     << Position("AAPL", "STK", 100, 150) >>, "OPT",
                     Some(OptionDetails("P", 100, Some(90), Some(60)))),
      \* modify_order SELL against a position of zero average cost: raises
      EvaluationCall("modify_order", "SELL", 50, Some(100), None,
                     Account(None, None, None),
                     << Position("AAPL", "STK", 99, 0) >>, "STK", None),
      \* place_order with net liquidation 0: raises in the fourth check
      EvaluationCall("place_order", "SELL", 1, Some(100), Some(140),
                     Account(Some(0), Some(0), Some(5000)),
                     << >>, "STK", None) }

\* The k-th statement of check_all's body: the value it appends or extends
\* the local list with (nothing when its condition is false), or the
\* exception it raises.
CheckStep(config, c, k) ==
    IF k \in 1..6 /\ c.operation # "place_order" THEN << >>
    ELSE IF k = 1
    THEN IF c.contract_type = "STK"
         THEN << _check_stop_loss(config, c.action, c.stop_loss) >>
         ELSE << >>
    ELSE IF k = 2
    THEN << _check_margin_usage(config, c.account_summary) >>
    ELSE IF k = 3
    THEN << _check_position_size(config, c.symbol, c.action, c.quantity,
                                 c.price, c.account_summary,
                                 c.current_positions) >>
    ELSE IF k = 4
    THEN << _check_total_position_limit(config, c.action, c.quantity, c.price,
                                        c.account_summary,
                                        c.current_positions) >>
    ELSE IF k = 5
    THEN << _check_volatility(config, c.symbol, c.option_details) >>
    ELSE IF k = 6
    THEN << _check_liquidity(c.symbol) >>
    ELSE IF k = 7
    THEN IF c.contract_type = "OPT"
         THEN _check_option_risks(config, c.symbol, c.action, c.quantity,
                                  c.option_details, c.account_summary,
                                  c.current_positions)
         ELSE << >>
    ELSE IF c.action = "SELL"
         THEN << _check_max_drawdown(config, c.symbol, c.price,
                                     c.current_positions) >>
         ELSE << >>

\* Whether the k-th statement of check_all's body runs a check for the call.
Applicable(c, k) ==
    IF k = 1 THEN c.operation = "place_order" /\ c.contract_type = "STK"
    ELSE IF k \in 2..6 THEN c.operation = "place_order"
    ELSE IF k = 7 THEN c.contract_type = "OPT"
    ELSE c.action = "SELL"

\* The first statement from the k-th on that runs a check, or the return.
NextApplicable(c, k) ==
    LET ahead == { j \in k..(Done - 1) : Applicable(c, j) }
    IN  IF ahead = {} THEN Done
        ELSE CHOOSE j \in ahead : \A i \in ahead : j <= i

\* Variant: the list of results is created once and kept from call to call.
BeginCall_keep_results(ev, c) ==
    [args |-> << c >>, step |-> NextApplicable(c, 1),
     st |-> [raised |-> FALSE, results |-> ev.st.results],
     overlapped |-> FALSE, reused |-> ev.step = Done]

\* Entry into check_all: the arguments are bound and `results = []` makes
\* the call's own list.
BeginCall(ev, c) ==
    [args |-> << c >>, step |-> NextApplicable(c, 1), st |-> Started,
     overlapped |-> FALSE, reused |-> ev.step = Done]

\* Variant: one list of results shared by all the calls in progress.
AppendResults_shared(evs, p, out) ==
    LET st1 == Then(evs[p].st, out)
    IN  [q \in DOMAIN evs |->
            IF q = p THEN [evs[q] EXCEPT !.st = st1]
            ELSE [evs[q] EXCEPT !.st.results = st1.results]]

\* results.append / results.extend on the list local to the call of p.
AppendResults(evs, p, out) ==
    [evs EXCEPT ![p].st = Then(@, out)]

InitConcurrent ==
    /\ cfg \in Configs
    /\ call = << >>
    /\ ret = NotYet
    /\ EvalsIdle
    /\ SeverityIdle
    /\ OrderIdle
    /\ ConfigIdle
    /\ CacheIdle
    /\ BrokerIdle

\* A caller enters check_all (its first call, or a new one after a return).
Invoke(p) ==
    /\ evals[p].step \in {0, Done}
    /\ \E c \in EvaluationCalls :
          evals' = [evals EXCEPT ![p] = BeginCall(@, c)]
    /\ UNCHANGED <<cfg, configVars, cacheVars, call, ret, severityVars, orderVars, brokerVars>>

\* A caller runs the next statement of check_all; an exception, or the end
\* of the body, takes it out of the function.
Step(p) ==
    /\ evals[p].step \in 1..(Done - 1)
    /\ LET ev == evals[p]
           out == CheckStep(cfg, ev.args[1], ev.step)
           appended == AppendResults(evals, p, out)
           amid == \E q \in Procs \ {p} :
                       /\ evals[q].step \in 1..(Done - 1)
                       /\ evals[q].st.results # << >>
       IN  evals' = [appended EXCEPT
                        ![p].step = IF appended[p].st.raised THEN Done
                                    ELSE NextApplicable(ev.args[1],
                                                        ev.step + 1),
                        ![p].overlapped = ev.overlapped \/ amid]
    /\ UNCHANGED <<cfg, configVars, cacheVars, call, ret, severityVars, orderVars, brokerVars>>

NextConcurrent == \E p \in Procs : Invoke(p) \/ Step(p)

SpecConcurrent == InitConcurrent /\ [][NextConcurrent]_vars

----------------------------------------------------------------------------
(* The severity resolver on arbitrary result lists *)

ResultSamples ==
    { RiskCheckResult("liquidity_check", PASS, "Liquidity check passed", NoDetails),
      RiskCheckResult("volatility_check", WARNING,
                      "High implied volatility detected", NoDetails),
      RiskCheckResult("drawdown_check", WARNING,
                      "Position exceeds max drawdown", NoDetails),
      RiskCheckResult("margin_check", BLOCK,
                      "Margin trading is not allowed", NoDetails) }

ResultLists == SeqsUpTo(ResultSamples, MaxResults)

InitSeverity ==
    /\ cfg \in Configs
    /\ call = << >>
    /\ ret = NotYet
    /\ EvalsIdle
    /\ rl \in ResultLists
    /\ hb = None
    /\ gw = None
    /\ OrderIdle
    /\ ConfigIdle
    /\ CacheIdle
    /\ BrokerIdle

HasBlockingIssues ==
    /\ hb = None
    /\ hb' = Some(has_blocking_issues(rl))
    /\ UNCHANGED <<cfg, configVars, cacheVars, engineVars, rl, gw, orderVars, brokerVars>>

GetWarnings ==
    /\ gw = None
    /\ gw' = Some(get_warnings(rl))
    /\ UNCHANGED <<cfg, configVars, cacheVars, engineVars, rl, hb, orderVars, brokerVars>>

NextSeverity == HasBlockingIssues \/ GetWarnings

SpecSeverity == InitSeverity /\ [][NextSeverity]_vars

----------------------------------------------------------------------------
(* tools/orders.py: place_order, the caller of the engine *)

OrderRequest(symbol, action, quantity, order_type, reason, limit_price, stop_loss_price, take_profit_price, contract_type, option_details) ==
    [symbol |-> symbol, action |-> action, quantity |-> quantity,
     order_type |-> order_type, reason |-> reason,
     limit_price |-> limit_price, stop_loss_price |-> stop_loss_price,
     take_profit_price |-> take_profit_price,
     contract_type |-> contract_type, option_details |-> option_details]

Requests ==
    [symbol : Symbols,
     action : {"BUY", "SELL", "HOLD"},
     quantity : Quantities,
     order_type : {"MKT", "LMT", "FOO"},
     reason : {"", " ", "rebalance"},
     limit_price : {None, Some(150)},
     stop_loss_price : StopLosses,
     take_profit_price : {None},
     contract_type : {"STK", "OPT", "FUT"},
     option_details : {None, Some(OptionDetails("C", 100, Some(5), None)),
                       Some(OptionDetails("C", 100, Some(5), Some(60)))}]

\* Variant: the reason is not stripped, only the empty string is refused.
Blank_empty_only(reason) == reason = ""

\* reason.strip() == "" for the reasons of the model
Blank(reason) == reason \in {"", " "}

BrokerAccounts ==
    { Account(Some(100000), Some(60000), Some(5000)),
      Account(Some(100000), Some(40000), Some(10000)),
      Account(Some(0), Some(0), Some(5000)) }

BrokerBooks ==
    { << >>,
      << Position("AAPL", "STK", 100, 150) >>,
      << Position("AAPL", "STK", 100, 200) >>,
      << Position("MSFT", "STK", 800, 100) >> }

\* price_data of get_market_price: None, or a dict whose 'last' may be None
PriceData == { None, Some([last |-> None]), Some([last |-> Some(150)]) }

\* ib_client.get_portfolio(): the positions the broker reports
get_portfolio(positions) == positions

\* price_data.get('last') if price_data else None
LastPrice(price_data) ==
    IF price_data = None THEN None ELSE price_data[1].last

Response(success, error, risk_issues, warnings, checks) ==
    [returned |-> TRUE, success |-> success, error |-> error,
     risk_issues |-> risk_issues, warnings |-> warnings,
     risk_checks |-> checks]

LogEntry(result, checks, error_message) ==
    [operation |-> "place_order", result |-> result, risk_checks |-> checks,
     error_message |-> error_message]

\* Variant: only the first message is taken.
Messages_first(results) ==
    IF results = << >> THEN << >> ELSE << Head(results).message >>

RECURSIVE Messages(_)
\* [c.message for c in results]
Messages(results) ==
    IF results = << >> THEN << >>
    ELSE << Head(results).message >> \o Messages(Tail(results))

IsBlock(r) == r.level = BLOCK

InitOrder ==
    /\ cfg \in Configs
    /\ call = << >>
    /\ ret = NotYet
    /\ EvalsIdle
    /\ SeverityIdle
    /\ OrderIdle
    /\ ConfigIdle
    /\ CacheIdle
    /\ broker_account \in BrokerAccounts
    /\ broker_positions \in BrokerBooks

\* place_order up to its first await: input validation
PlaceOrderCall ==
    /\ pc = "idle"
    /\ \E r \in Requests :
          /\ req' = r
          /\ IF Blank(r.reason)
             THEN /\ resp' = Response(FALSE, "Order reason is required (must be provided by AI)",
                                      << >>, << >>, << >>)
                  /\ pc' = "done"
             ELSE IF r.action \notin {"BUY", "SELL"}
             THEN /\ resp' = Response(FALSE, "Invalid action", << >>, << >>, << >>)
                  /\ pc' = "done"
             ELSE IF r.order_type \notin {"MKT", "LMT", "STP", "STP LMT"}
             THEN /\ resp' = Response(FALSE, "Invalid order type", << >>, << >>, << >>)
                  /\ pc' = "done"
             ELSE /\ resp' = resp
                  /\ pc' = "get_account_summary"
    /\ UNCHANGED <<cfg, configVars, cacheVars, engineVars, severityVars, acct, book, check_price,
                   risk_checks, submitted, audit, brokerVars>>

\* The arguments of the submit_order tool of server.py.
SubmitArgs ==
    [symbol : Symbols, action : Actions, quantity : Quantities,
     order_type : {"MKT", "LMT"}, reason : {"rebalance"},
     limit_price : {None, Some(150)}, stop_loss_price : {None},
     take_profit_price : {None}, contract_type : {"STK", "OPT"},
     option_expiration : {None, Some(20250117)},
     option_strike : {Some(100)}, option_right : {Some("C")}]

\* The option_details dictionary submit_order builds: expiration, strike and
\* right, and no 'price' and no 'implied_volatility' key.  The expiration is
\* read by the contract factory only and is not kept.
submit_order_details(option_expiration, option_strike, option_right) ==
    Some(OptionDetails(option_right[1], option_strike[1], None, None))

\* submit_order: the option arguments are checked, the details are built,
\* and place_order is entered with them (its input validation included).
SubmitOrder ==
    /\ pc = "idle"
    /\ \E a \in SubmitArgs :
          IF a.contract_type = "OPT"
             /\ (a.option_expiration = None \/ ~Truthy(a.option_strike)
                 \/ a.option_right = None)
          THEN /\ resp' = Response(FALSE,
                              "Option orders require expiration, strike, and right (C/P)",
                              << >>, << >>, << >>)
               /\ pc' = "done"
               /\ req' = req
          ELSE LET r == OrderRequest(a.symbol, a.action, a.quantity,
                            a.order_type, a.reason, a.limit_price,
                            a.stop_loss_price, a.take_profit_price,
                            a.contract_type,
                            IF a.contract_type = "OPT"
                            THEN submit_order_details(a.option_expiration,
                                     a.option_strike, a.option_right)
                            ELSE None)
               IN  /\ req' = r
                   /\ IF Blank(r.reason)
                      THEN /\ resp' = Response(FALSE, "Order reason is required (must be provided by AI)",
                                               << >>, << >>, << >>)
                           /\ pc' = "done"
                      ELSE IF r.action \notin {"BUY", "SELL"}
                      THEN /\ resp' = Response(FALSE, "Invalid action", << >>, << >>, << >>)
                           /\ pc' = "done"
                      ELSE IF r.order_type \notin {"MKT", "LMT", "STP", "STP LMT"}
                      THEN /\ resp' = Response(FALSE, "Invalid order type", << >>, << >>, << >>)
                           /\ pc' = "done"
                      ELSE /\ resp' = resp
                           /\ pc' = "get_account_summary"
    /\ UNCHANGED <<cfg, configVars, cacheVars, engineVars, severityVars, acct, book, check_price,
                   risk_checks, submitted, audit, brokerVars>>

\* The except clause of place_order: one 'error' entry with no risk checks,
\* and a failure response.
Except(e) ==
    /\ audit' = Append(audit, LogEntry("error", << >>, << e >>))
    /\ resp' = Response(FALSE, e, << >>, << >>, << >>)
    /\ pc' = "done"

\* account_summary = await ib_client.get_account_summary()
PlaceOrderGetAccountSummary ==
    /\ pc = "get_account_summary"
    /\ \/ /\ acct' = broker_account
          /\ pc' = "get_portfolio"
          /\ UNCHANGED <<audit, resp>>
       \/ /\ Except("ConnectionError")
          /\ UNCHANGED acct
    /\ UNCHANGED <<cfg, configVars, cacheVars, engineVars, severityVars, req, book, check_price,
                   risk_checks, submitted, brokerVars>>

\* current_positions = await ib_client.get_portfolio(); check_price = limit_price
PlaceOrderGetPortfolio ==
    /\ pc = "get_portfolio"
    /\ \/ /\ book' = get_portfolio(broker_positions)
          /\ check_price' = req.limit_price
          /\ pc' = IF ~Truthy(req.limit_price) /\ req.order_type = "MKT"
                      THEN "get_market_price" ELSE "check"
          /\ UNCHANGED <<audit, resp>>
       \/ /\ Except("ConnectionError")
          /\ UNCHANGED <<book, check_price>>
    /\ UNCHANGED <<cfg, configVars, cacheVars, engineVars, severityVars, req, acct, risk_checks,
                   submitted, brokerVars>>

\* price_data = await ib_client.get_market_price(...), market orders only
PlaceOrderGetMarketPrice ==
    /\ pc = "get_market_price"
    /\ \/ /\ \E price_data \in PriceData : check_price' = LastPrice(price_data)
          /\ pc' = "check"
          /\ UNCHANGED <<audit, resp>>
       \/ /\ Except("ConnectionError")
          /\ UNCHANGED check_price
    /\ UNCHANGED <<cfg, configVars, cacheVars, engineVars, severityVars, req, acct, book, risk_checks,
                   submitted, brokerVars>>

\* From the check_all call to the next await or return: the risk checks, the
\* rejection of a blocked order, the warnings and the contract.
PlaceOrderRiskCheck ==
    /\ pc = "check"
    /\ LET out == check_all(cfg, "place_order", req.symbol, req.action,
                            req.quantity, check_price, req.stop_loss_price,
                            acct, book, req.contract_type, req.option_details)
       IN  IF out.raised
           THEN \* the exception leaves check_all: risk_checks is never bound
                /\ risk_checks' = [raised |-> TRUE, results |-> << >>]
                /\ Except("ZeroDivisionError")
           ELSE /\ risk_checks' = out
                /\ IF has_blocking_issues(out.results)
                   THEN LET blocking_checks == SelectSeq(out.results, IsBlock)
                            error_msg == Messages(blocking_checks)
                        IN  /\ audit' = Append(audit,
                                   LogEntry("blocked_by_risk", out.results, error_msg))
                            /\ resp' = Response(FALSE, "Order blocked by risk checks",
                                                error_msg, << >>, out.results)
                            /\ pc' = "done"
                   ELSE IF req.contract_type = "STK"
                           \/ (req.contract_type = "OPT" /\ req.option_details # None)
                   THEN /\ pc' = "submit"
                        /\ UNCHANGED <<audit, resp>>
                   ELSE /\ resp' = Response(FALSE,
                                       IF req.contract_type = "OPT"
                                          THEN "Option details required for option orders"
                                          ELSE "Unsupported contract type",
                                       << >>, << >>, << >>)
                        /\ pc' = "done"
                        /\ UNCHANGED audit
    /\ UNCHANGED <<cfg, configVars, cacheVars, engineVars, severityVars, req, acct, book, check_price,
                   submitted, brokerVars>>

\* The broker call (bracket order when a stop loss or take profit is given,
\* a regular order otherwise), the audit entry and the response.
PlaceOrderSubmit ==
    /\ pc = "submit"
    /\ LET method == IF Truthy(req.stop_loss_price) \/ Truthy(req.take_profit_price)
                        THEN "place_bracket_order" ELSE "place_order"
           warning_messages == Messages(get_warnings(risk_checks.results))
       IN  \E outcome \in {"trade", "none", "raise"} :
              /\ submitted' = Append(submitted,
                                     [method |-> method, outcome |-> outcome])
              /\ IF outcome = "raise"
                 THEN Except("BrokerError")
                 ELSE IF outcome = "none"
                 THEN /\ audit' = Append(audit,
                             LogEntry("failed", risk_checks.results,
                                      << IF method = "place_order"
                                            THEN "Failed to place order"
                                            ELSE "Failed to place bracket order" >>))
                      /\ resp' = Response(FALSE,
                                     IF method = "place_order"
                                        THEN "Failed to place order"
                                        ELSE "Failed to place bracket order",
                                     << >>, << >>, << >>)
                      /\ pc' = "done"
                 ELSE /\ audit' = Append(audit,
                             LogEntry("success", risk_checks.results, << >>))
                      /\ resp' = Response(TRUE, "", << >>, warning_messages,
                                          risk_checks.results)
                      /\ pc' = "done"
    /\ UNCHANGED <<cfg, configVars, cacheVars, engineVars, severityVars, req, acct, book, check_price,
                   risk_checks, brokerVars>>

\* The caller has the response; the tool is ready for the next request.
PlaceOrderReturn ==
    /\ pc = "done"
    /\ pc' = "idle"
    /\ req' = NoRequest
    /\ acct' = Account(None, None, None)
    /\ book' = << >>
    /\ check_price' = None
    /\ risk_checks' = NotYet
    /\ submitted' = << >>
    /\ audit' = << >>
    /\ resp' = NoResponse
    /\ UNCHANGED <<cfg, configVars, cacheVars, engineVars, severityVars, brokerVars>>

\* The broker's account or positions change (a fill, a deposit) while a
\* request is in flight.
BrokerChange ==
    /\ pc \notin {"idle", "done"}
    /\ broker_account' \in BrokerAccounts
    /\ broker_positions' \in BrokerBooks
    /\ <<broker_account', broker_positions'>> # <<broker_account, broker_positions>>
    /\ UNCHANGED <<cfg, configVars, cacheVars, engineVars, severityVars, orderVars>>

NextOrder ==
    \/ PlaceOrderCall
    \/ SubmitOrder
    \/ PlaceOrderGetAccountSummary
    \/ PlaceOrderGetPortfolio
    \/ PlaceOrderGetMarketPrice
    \/ PlaceOrderRiskCheck
    \/ PlaceOrderSubmit
    \/ PlaceOrderReturn
    \/ BrokerChange

SpecOrder == InitOrder /\ [][NextOrder]_vars

----------------------------------------------------------------------------
(* A run of Sell-Call orders, each evaluated on the book the earlier ones left *)

MaxShortCalls == 4

Underlying == "AAPL"

\* Shares of the underlying held at the start; no short calls yet.
ShareLots == {0, 99, 100, 200, 300}

CallQuantities == {1, 2}

CallDetails == Some(OptionDetails("C", 100, Some(5), None))

RECURSIVE ShortCalls(_)
\* Contracts of calls on the underlying the book is short of.
ShortCalls(positions) ==
    IF positions = << >> THEN 0
    ELSE (IF Head(positions).symbol = Underlying
             /\ Head(positions).secType = "OPT"
             /\ Head(positions).position < 0
          THEN 0 - Head(positions).position ELSE 0)
         + ShortCalls(Tail(positions))

RECURSIVE SharesHeld(_)
\* Shares of the underlying in the book.
SharesHeld(positions) ==
    IF positions = << >> THEN 0
    ELSE (IF Head(positions).symbol = Underlying
             /\ Head(positions).secType = "STK"
          THEN Head(positions).position ELSE 0)
         + SharesHeld(Tail(positions))

\* The book after the broker filled a sale of `quantity` calls: the short
\* option position is opened, or grown when there is one already.
Filled(positions, quantity) ==
    IF \E i \in 1..Len(positions) : IsOptionPosition(positions[i])
    THEN [i \in 1..Len(positions) |->
             IF IsOptionPosition(positions[i])
             THEN [positions[i] EXCEPT !.position = @ - quantity]
             ELSE positions[i]]
    ELSE Append(positions, Position(Underlying, "OPT", 0 - quantity, 500))

InitCalls ==
    /\ cfg \in Configs
    /\ call = << >>
    /\ ret = NotYet
    /\ EvalsIdle
    /\ SeverityIdle
    /\ OrderIdle
    /\ ConfigIdle
    /\ CacheIdle
    /\ broker_account \in BrokerAccounts
    /\ \E s \in ShareLots :
          broker_positions = << Position(Underlying, "STK", s, 150) >>

\* A Sell-Call order is evaluated against what the broker holds now.
SellCallCheck ==
    /\ call = << >>
    /\ \E q \in CallQuantities :
          /\ ShortCalls(broker_positions) + q <= MaxShortCalls
          /\ LET c == [operation |-> "place_order", symbol |-> Underlying,
                       action |-> "SELL", quantity |-> q, price |-> Some(5),
                       stop_loss |-> None, account_summary |-> broker_account,
                       current_positions |-> broker_positions,
                       contract_type |-> "OPT", option_details |-> CallDetails]
             IN  /\ call' = << c >>
                 /\ ret' = check_all(cfg, c.operation, c.symbol, c.action,
                                     c.quantity, c.price, c.stop_loss,
                                     c.account_summary, c.current_positions,
                                     c.contract_type, c.option_details)
    /\ UNCHANGED <<cfg, configVars, cacheVars, evals, severityVars, orderVars, brokerVars>>

\* The order was approved (no BLOCK in the returned list) and is filled.
SellCallFill ==
    /\ call # << >>
    /\ ~ret.raised /\ ~has_blocking_issues(ret.results)
    /\ broker_positions' = Filled(broker_positions, call[1].quantity)
    /\ call' = << >>
    /\ ret' = NotYet
    /\ UNCHANGED <<cfg, configVars, cacheVars, evals, severityVars, orderVars, broker_account>>

\* The order was blocked, or the evaluation raised: nothing is sold.
SellCallReject ==
    /\ call # << >>
    /\ ret.raised \/ has_blocking_issues(ret.results)
    /\ call' = << >>
    /\ ret' = NotYet
    /\ UNCHANGED <<cfg, configVars, cacheVars, evals, severityVars, orderVars, brokerVars>>

NextCalls == SellCallCheck \/ SellCallFill \/ SellCallReject

SpecCalls == InitCalls /\ [][NextCalls]_vars

----------------------------------------------------------------------------
(* config.py: the Config settings and the module-level instance *)

Environs == [IB_ACCOUNT : {"", "DU123"},
             IB_PORT : {"1023", "1024", "7497", "65535", "65536", "abc"}]

\* What a call returned, as opposed to Raise(e)
Value(v) == [value |-> v]

\* The integer pydantic reads from the text of IB_PORT, None when the text
\* is not an integer.
ParseInt(text) ==
    CASE text = "1023" -> Some(1023)
      [] text = "1024" -> Some(1024)
      [] text = "7497" -> Some(7497)
      [] text = "65535" -> Some(65535)
      [] text = "65536" -> Some(65536)
      [] OTHER -> None

\* Config(): the fields are read from the environment; a port that is not
\* an integer fails the construction.
Config(env) ==
    LET port == ParseInt(env.IB_PORT)
    IN  IF port = None THEN Raise("ValidationError")
        ELSE Value([ib_account |-> env.IB_ACCOUNT, ib_port |-> port[1]])

validate_ib_config(self) ==
    IF self.ib_account = ""
    THEN Raise("IB_ACCOUNT must be set in environment")
    ELSE IF ~(1024 <= self.ib_port /\ self.ib_port <= 65535)
    THEN Raise("IB_PORT must be between 1024 and 65535")
    ELSE Value(TRUE)

InitConfig ==
    /\ cfg \in Configs
    /\ call = << >>
    /\ ret = NotYet
    /\ EvalsIdle
    /\ SeverityIdle
    /\ OrderIdle
    /\ BrokerIdle
    /\ environ \in Environs
    /\ _config = None
    /\ got = NotCalled
    /\ CacheIdle

\* get_config(): the global is assigned as soon as Config() has returned,
\* and validated after that.
GetConfig ==
    /\ IF _config = None
       THEN LET made == Config(environ)
            IN  IF IsRaise(made)
                THEN /\ _config' = _config
                     /\ got' = made
                ELSE /\ _config' = Some(made.value)
                     /\ got' = IF IsRaise(validate_ib_config(made.value))
                               THEN validate_ib_config(made.value)
                               ELSE Value(made.value)
       ELSE /\ _config' = _config
            /\ got' = Value(_config[1])
    /\ UNCHANGED <<cfg, engineVars, severityVars, orderVars, brokerVars,
                   environ, cacheVars>>

ResetConfig ==
    /\ _config' = None
    /\ UNCHANGED <<cfg, engineVars, severityVars, orderVars, brokerVars,
                   environ, got, cacheVars>>

\* The environment is changed between two calls (a test sets a variable,
\* the operator corrects the .env file).
SetEnviron ==
    /\ environ' \in Environs \ {environ}
    /\ UNCHANGED <<cfg, engineVars, severityVars, orderVars, brokerVars,
                   _config, got, cacheVars>>

NextConfig == GetConfig \/ ResetConfig \/ SetEnviron

SpecConfig == InitConfig /\ [][NextConfig]_vars

----------------------------------------------------------------------------
(* cache/cache_utils.py and cache/db_manager.py: the K-line cache *)

\* Days the clock runs over, and the length of a list the decorated function
\* delivers
MaxDay == 3
MaxBars == 2

KlineSymbols == {"AAPL", ""}
BarSize == "1D"
Closes == {10, 11}

\* A datetime text: '2023-01-0d' (form "date") or '2023-01-0dT00:00:00'
\* (form "iso")
Stamp(day, form) == [day |-> day, form |-> form]

\* The order of the texts as strings: by day, the date form first (it is a
\* prefix of the iso form).
TextRank(dt) == 2 * dt.day + (IF dt.form = "iso" THEN 1 ELSE 0)

\* A bar; close stands for the values of the bar (open, high, low, close,
\* volume, average, bar_count travel together).
Bar(datetime, close) == [datetime |-> datetime, close |-> close]

\* merge_data.normalize_datetime: datetime.fromisoformat(dt).isoformat()
normalize_datetime(dt) == Stamp(dt.day, "iso")

Row(symbol, bar_size, bar) ==
    [symbol |-> symbol, bar_size |-> bar_size, datetime |-> bar.datetime,
     close |-> bar.close]

RowsOf(table, symbol, bar_size) ==
    { r \in table : r.symbol = symbol /\ r.bar_size = bar_size }

\* INSERT OR REPLACE of each bar in turn under UNIQUE(symbol, bar_size,
\* datetime): a row with the same key gives way to the new one.
RECURSIVE save_kline_data(_, _, _, _)
save_kline_data(table, symbol, bar_size, bars) ==
    IF bars = << >> THEN table
    ELSE LET bar == Head(bars)
             kept == { r \in table : ~(/\ r.symbol = symbol
                                        /\ r.bar_size = bar_size
                                        /\ r.datetime = bar.datetime) }
         IN  save_kline_data(kept \cup {Row(symbol, bar_size, bar)}, symbol,
                             bar_size, Tail(bars))

\* SELECT ... ORDER BY datetime ASC
RECURSIVE get_kline_data(_)
get_kline_data(rows) ==
    IF rows = {} THEN << >>
    ELSE LET first == CHOOSE r \in rows :
                         \A q \in rows : TextRank(r.datetime)
                                            <= TextRank(q.datetime)
         IN  << first >> \o get_kline_data(rows \ {first})

\* get_cached_data: the rows as bars, pd.to_datetime(...).isoformat() as the
\* datetime of each
get_cached_data(table, symbol, bar_size) ==
    LET rows == get_kline_data(RowsOf(table, symbol, bar_size))
    IN  [i \in 1..Len(rows) |->
            Bar(normalize_datetime(rows[i].datetime), rows[i].close)]

\* SELECT MAX(datetime): None when there is no row
get_latest_kline_datetime(table, symbol, bar_size) ==
    LET rows == RowsOf(table, symbol, bar_size)
    IN  IF rows = {} THEN None
        ELSE Some((CHOOSE r \in rows :
                      \A q \in rows : TextRank(q.datetime)
                                         <= TextRank(r.datetime)).datetime)

\* (now - latest_dt).days < max_age_days, max_age_days = 1
is_cache_fresh(table, symbol, bar_size, today) ==
    LET latest_cached == get_latest_kline_datetime(table, symbol, bar_size)
    IN  IF latest_cached = None THEN FALSE
        ELSE today - latest_cached[1].day < 1

\* The number of days of the "<n> D" duration
get_incremental_duration(table, symbol, bar_size, today) ==
    LET latest_cached == get_latest_kline_datetime(table, symbol, bar_size)
    IN  IF latest_cached = None THEN None
        ELSE Some(today - latest_cached[1].day + 1)

\* list.sort(key = normalize_datetime): stable, by day
RECURSIVE SortByDatetime(_)
SortByDatetime(bars) ==
    IF bars = << >> THEN << >>
    ELSE LET low == CHOOSE i \in 1..Len(bars) :
                       /\ \A j \in 1..Len(bars) :
                             bars[i].datetime.day <= bars[j].datetime.day
                       /\ \A j \in 1..(i - 1) :
                             bars[j].datetime.day # bars[i].datetime.day
             rest == [k \in 1..(Len(bars) - 1) |->
                         IF k < low THEN bars[k] ELSE bars[k + 1]]
         IN  << bars[low] >> \o SortByDatetime(rest)

\* The loop of merge_data: a new bar is appended unless its normalized
\* datetime is among the existing ones.
RECURSIVE MergeLoop(_, _, _)
MergeLoop(merged_data, existing_dates, new_data) ==
    IF new_data = << >> THEN merged_data
    ELSE LET bar == Head(new_data)
             bar_dt == normalize_datetime(bar.datetime)
         IN  IF bar_dt \notin existing_dates
             THEN MergeLoop(Append(merged_data, bar),
                            existing_dates \cup {bar_dt}, Tail(new_data))
             ELSE MergeLoop(merged_data, existing_dates, Tail(new_data))

merge_data(cached_data, new_data) ==
    IF new_data = << >> THEN cached_data
    ELSE SortByDatetime(
             MergeLoop(cached_data,
                       { normalize_datetime(cached_data[i].datetime) :
                            i \in 1..Len(cached_data) },
                       new_data))

ErrorReply == << [error |-> "No data"] >>

_has_error(data) ==
    \E i \in 1..Len(data) : "error" \in DOMAIN data[i]

\* The lists of at most n bars over the given days
RECURSIVE BarLists(_, _)
BarLists(days, n) ==
    IF n = 0 THEN { << >> }
    ELSE LET shorter == BarLists(days, n - 1)
         IN  shorter \cup
             { Append(l, Bar(Stamp(d, "date"), c)) :
                  l \in { s \in shorter : Len(s) = n - 1 },
                  d \in days, c \in Closes }

\* What the decorated function may deliver for a duration of `duration` days
\* ending today (None: its own default, the full history): daily bars of
\* those days, dated 'YYYY-MM-DD', or an error item.
Replies(duration, today) ==
    LET days == IF duration = None THEN 1..today
                ELSE { d \in 1..today : d > today - duration[1] }
    IN  BarLists(days, MaxBars) \cup {ErrorReply}

WrapperParams ==
    [symbol : KlineSymbols, bar_size : {BarSize}, use_cache : BOOLEAN,
     force_refresh : BOOLEAN]

Awaiting(params, path, cached_data, duration) ==
    [pc |-> "await", params |-> params, path |-> path,
     cached_data |-> cached_data, duration |-> duration]

Returned(w, new_data, result) ==
    [pc |-> "done", params |-> w.params, path |-> w.path,
     cached_data |-> w.cached_data, new_data |-> new_data,
     result |-> result]

InitCache ==
    /\ cfg \in Configs
    /\ call = << >>
    /\ ret = NotYet
    /\ EvalsIdle
    /\ SeverityIdle
    /\ OrderIdle
    /\ BrokerIdle
    /\ ConfigIdle
    /\ CacheIdle

\* wrapper up to its await: the path is chosen from the parameters and the
\* cache; a fresh cache is returned without a call of the function.
WrapperCall ==
    /\ wrapper.pc \in {"idle", "done"}
    /\ \E params \in WrapperParams :
          LET symbol == params.symbol
              bar_size == params.bar_size
              cached_data == get_cached_data(kline_data, symbol, bar_size)
          IN  wrapper' =
                 IF symbol = "" \/ bar_size = ""
                 THEN Awaiting(params, "direct", << >>, None)
                 ELSE IF ~params.use_cache \/ params.force_refresh
                 THEN Awaiting(params, "refresh", << >>, None)
                 ELSE IF cached_data = << >>
                 THEN Awaiting(params, "full", cached_data, None)
                 ELSE IF is_cache_fresh(kline_data, symbol, bar_size, now)
                 THEN [pc |-> "done", params |-> params, path |-> "fresh",
                       cached_data |-> cached_data, new_data |-> << >>,
                       result |-> cached_data]
                 ELSE Awaiting(params, "incremental", cached_data,
                               get_incremental_duration(kline_data, symbol,
                                                        bar_size, now))
    /\ UNCHANGED <<cfg, engineVars, severityVars, orderVars, brokerVars,
                   configVars, kline_data, now>>

\* wrapper from the return of the function to its own return
WrapperResume ==
    /\ wrapper.pc = "await"
    /\ \E new_data \in Replies(wrapper.duration, now) :
          LET symbol == wrapper.params.symbol
              bar_size == wrapper.params.bar_size
              good == new_data # << >> /\ ~_has_error(new_data)
          IN  CASE wrapper.path = "direct" ->
                      /\ wrapper' = Returned(wrapper, new_data, new_data)
                      /\ kline_data' = kline_data
                [] wrapper.path = "refresh" ->
                      /\ wrapper' = Returned(wrapper, new_data, new_data)
                      /\ kline_data' =
                            IF wrapper.params.use_cache /\ good
                            THEN save_kline_data(kline_data, symbol,
                                                 bar_size, new_data)
                            ELSE kline_data
                [] wrapper.path = "full" ->
                      /\ wrapper' = Returned(wrapper, new_data, new_data)
                      /\ kline_data' =
                            IF good
                            THEN save_kline_data(kline_data, symbol,
                                                 bar_size, new_data)
                            ELSE kline_data
                [] wrapper.path = "incremental" ->
                      IF good
                      THEN /\ wrapper' =
                                 Returned(wrapper, new_data,
                                          merge_data(wrapper.cached_data,
                                                     new_data))
                           /\ kline_data' =
                                 save_kline_data(kline_data, symbol,
                                                 bar_size, new_data)
                      ELSE /\ wrapper' = Returned(wrapper, new_data,
                                                  wrapper.cached_data)
                           /\ kline_data' = kline_data
    /\ UNCHANGED <<cfg, engineVars, severityVars, orderVars, brokerVars,
                   configVars, now>>

\* datetime.now() moves on to the next day
Tick ==
    /\ now < MaxDay
    /\ now' = now + 1
    /\ UNCHANGED <<cfg, engineVars, severityVars, orderVars, brokerVars,
                   configVars, kline_data, wrapper>>

NextCache == WrapperCall \/ WrapperResume \/ Tick

SpecCache == InitCache /\ [][NextCache]_vars

----------------------------------------------------------------------------
(* Properties *)

IsCall == call # << >>
IsPlaceOrder == IsCall /\ call[1].operation = "place_order"

\* The results of the given name among those the last call produced.
Named(name) ==
    SelectSeq(ret.results, LAMBDA r : r.check_name = name)

BlockCount(results) ==
    Cardinality({ i \in 1..Len(results) : results[i].level = BLOCK })

\* C1: for every result list, the empty one included, has_blocking_issues is
\* true exactly when at least one element has level BLOCK; lists of PASS and
\* WARNING results only never make it true.
C1_HasBlockingIffBlock ==
    hb # None =>
        /\ hb[1] = (BlockCount(rl) >= 1)
        /\ (\A i \in 1..Len(rl) : rl[i].level \in {PASS, WARNING}) => ~hb[1]
        /\ rl = << >> => ~hb[1]

C1_Witness ==
    /\ hb = Some(FALSE)
    /\ \E i \in 1..Len(rl) : rl[i].level = WARNING

\* C2: check_all is total; whatever the well-typed arguments, the call
\* returns a list and does not raise.
C2_CheckAllNeverRaises ==
    IsCall => ~ret.raised

\* C3: with a net liquidation of 0, a place_order evaluation returns a list
\* that contains the BLOCK result position_size_check "Cannot determine
\* account value".
C3_ZeroNetLiquidationIsReturnedAsBlock ==
    (IsPlaceOrder /\ call[1].account_summary.NetLiquidation = Some(0))
    => /\ ~ret.raised
       /\ \E i \in 1..Len(ret.results) :
             /\ ret.results[i].check_name = "position_size_check"
             /\ ret.results[i].level = BLOCK
             /\ ret.results[i].message = "Cannot determine account value"

AnyBlock(results) == BlockCount(results) >= 1

CommonNames(contract_type) ==
    (IF contract_type = "STK" THEN << "stop_loss_check" >> ELSE << >>)
    \o << "margin_check", "position_size_check", "total_position_check",
          "volatility_check", "liquidity_check" >>

OptionGroupNames ==
    { "option_details_check", "option_position_limit", "naked_call_check",
      "covered_call_check", "naked_put_collateral" }

\* The number of results the claim's five determinants call for.
ExpectedCount(c) ==
    (IF c.operation = "place_order" THEN Len(CommonNames(c.contract_type)) ELSE 0)
    + (IF c.contract_type # "OPT" THEN 0
       ELSE IF c.option_details = None THEN 1
       ELSE IF c.action = "SELL" /\ c.option_details[1].right \in {"C", "P"}
            THEN 2 ELSE 1)
    + (IF c.action = "SELL" THEN 1 ELSE 0)

\* C5: every check_all call returns its results in the one fixed order: for
\* place_order the common checks (stop loss first, for stock only), then the
\* option group for an option contract, then the drawdown check for a SELL;
\* every place_order evaluation returns a non-empty list.
C5_FixedOrderAndNonEmpty ==
    IsCall =>
        LET c == call[1]
            n == Len(ret.results)
            k == IF c.operation = "place_order"
                    THEN Len(CommonNames(c.contract_type)) ELSE 0
            d == IF c.action = "SELL" THEN 1 ELSE 0
        IN  /\ ~ret.raised
            /\ n >= k + d
            /\ \A i \in 1..k :
                  ret.results[i].check_name = CommonNames(c.contract_type)[i]
            /\ \A i \in (k + 1)..(n - d) :
                  ret.results[i].check_name \in OptionGroupNames
            /\ (c.contract_type = "OPT") <=> (n - d > k)
            /\ d = 1 => ret.results[n].check_name = "drawdown_check"
            /\ c.operation = "place_order" => n > 0

\* C6: the number of results check_all returns depends only on the
\* operation, the contract type, the action, the presence of option details
\* and the option right, not on what the earlier checks found.
C6_CountIndependentOfVerdicts ==
    IsCall => /\ ~ret.raised
              /\ Len(ret.results) = ExpectedCount(call[1])

\* C7: for a stock place_order evaluation the stop_loss_check is BLOCK
\* exactly when the configuration requires a stop loss, the action is BUY and
\* no stop loss is given; a SELL never blocks on it, and it always passes
\* when the requirement is switched off.
C7_StopLossBlockIff ==
    (IsPlaceOrder /\ call[1].contract_type = "STK") =>
        LET c == call[1]
            s == Named("stop_loss_check")
        IN  /\ Len(s) = 1
            /\ ret.results[1] = s[1]
            /\ s[1].level \in {PASS, BLOCK}
            /\ (s[1].level = BLOCK) <=>
                  (cfg.risk_require_stop_loss /\ c.action = "BUY"
                   /\ c.stop_loss = None)
            /\ c.action = "SELL" => s[1].level = PASS
            /\ ~cfg.risk_require_stop_loss => s[1].level = PASS

C7_Witness ==
    /\ IsPlaceOrder /\ call[1].contract_type = "STK"
    /\ cfg.risk_require_stop_loss
    /\ call[1].action = "BUY" /\ call[1].stop_loss = None
    /\ ret.results[1].check_name = "stop_loss_check"
    /\ ret.results[1].level = BLOCK

\* C8: with margin not allowed, margin_check is BLOCK exactly when the excess
\* liquidity is strictly below half the reported net liquidation (40,000 of
\* 100,000 blocks, 50,000 and 60,000 pass); with margin allowed it passes.
C8_MarginBlockIff ==
    (IsPlaceOrder /\ call[1].account_summary.NetLiquidation # None) =>
        LET a == call[1].account_summary
            nl == a.NetLiquidation[1]
            el == IF a.ExcessLiquidity = None THEN 0 ELSE a.ExcessLiquidity[1]
            m == Named("margin_check")
        IN  /\ Len(m) = 1
            /\ m[1].level \in {PASS, BLOCK}
            /\ (m[1].level = BLOCK) <=>
                  (~cfg.risk_allow_margin /\ 2 * el < nl)
            /\ (~cfg.risk_allow_margin /\ el = 40000 /\ nl = 100000)
                  => m[1].level = BLOCK
            /\ (el = 60000 /\ nl = 100000) => m[1].level = PASS
            /\ cfg.risk_allow_margin => m[1].level = PASS

C8_Witness ==
    /\ IsPlaceOrder /\ ~cfg.risk_allow_margin
    /\ call[1].account_summary.NetLiquidation = Some(100000)
    /\ call[1].account_summary.ExcessLiquidity = Some(50000)
    /\ Len(Named("margin_check")) = 1
    /\ Named("margin_check")[1].level = PASS

\* C9 as stated: with margin not allowed, a net liquidation that is absent
\* or zero is compared as 1, so an account with net liquidation 0 and excess
\* liquidity 0 is blocked.
C9_ZeroOrAbsentComparedAsOne ==
    (IsPlaceOrder /\ ~cfg.risk_allow_margin
     /\ TagValue(call[1].account_summary, "NetLiquidation", 0) = 0) =>
        LET el == TagValue(call[1].account_summary, "ExcessLiquidity", 0)
            m == Named("margin_check")
        IN  /\ Len(m) = 1
            /\ (m[1].level = BLOCK) <=> (2 * el < 1)

\* C9 amended: with margin not allowed, only an absent net liquidation is
\* compared as 1 (excess liquidity 0 then blocks); a reported net liquidation
\* of 0 is compared as 0, so net liquidation 0 with excess liquidity 0 passes.
C9_OnlyAbsentComparedAsOne ==
    (IsPlaceOrder /\ ~cfg.risk_allow_margin) =>
        LET a == call[1].account_summary
            el == TagValue(a, "ExcessLiquidity", 0)
            m == Named("margin_check")
        IN  /\ Len(m) = 1
            /\ a.NetLiquidation = None =>
                  ((m[1].level = BLOCK) <=> (2 * el < 1))
            /\ a.NetLiquidation = Some(0) =>
                  ((m[1].level = BLOCK) <=> (el < 0))
            /\ (a.NetLiquidation = Some(0) /\ el = 0) => m[1].level = PASS

C9_Witness ==
    /\ IsPlaceOrder /\ ~cfg.risk_allow_margin
    /\ call[1].account_summary.NetLiquidation = Some(0)
    /\ call[1].account_summary.ExcessLiquidity = Some(0)
    /\ Len(Named("margin_check")) = 1
    /\ Named("margin_check")[1].level = PASS

\* The positions of the book held in the given symbol.
InSymbol(positions, symbol) ==
    SelectSeq(positions, LAMBDA pos : pos.symbol = symbol)

\* C10: for a net liquidation other than 0, position_size_check is BLOCK
\* exactly when newValue / netLiquidation * 100 > 20 (exactly 20 passes),
\* where newValue is |existing| + quantity * price for BUY and
\* |existing| - quantity * price for SELL, unclamped, a missing price counts
\* as 0, and existing is quantity * averageCost of the position held in the
\* order's symbol (0 when there is none).
C10_PositionSizeBlockIff ==
    (IsPlaceOrder
     /\ TagValue(call[1].account_summary, "NetLiquidation", 0) # 0
     /\ Len(InSymbol(call[1].current_positions, call[1].symbol)) <= 1) =>
        LET c == call[1]
            nl == c.account_summary.NetLiquidation[1]
            held == InSymbol(c.current_positions, c.symbol)
            existing == IF held = << >> THEN 0
                        ELSE held[1].position * held[1].avgCost
            orderValue == IF c.price = None THEN 0 ELSE c.quantity * c.price[1]
            newValue == IF c.action = "BUY" THEN Abs(existing) + orderValue
                                            ELSE Abs(existing) - orderValue
            p == Named("position_size_check")
        IN  /\ Len(p) = 1
            /\ p[1].level \in {PASS, BLOCK}
            /\ nl > 0 => ((p[1].level = BLOCK) <=>
                             (newValue * 100 > risk_max_single_position_pct * nl))
            /\ nl < 0 => ((p[1].level = BLOCK) <=>
                             (newValue * 100 < risk_max_single_position_pct * nl))
            /\ (nl = 100000 /\ existing = 15000 /\ c.action = "BUY"
                /\ c.quantity = 50 /\ c.price = Some(150))
                  => /\ p[1].level = BLOCK
                     /\ p[1].details.new_value = 22500
            /\ (c.action = "SELL" /\ existing = 0 /\ c.price # None)
                  => p[1].details.position_pct[1] < 0

C10_Witness ==
    /\ IsPlaceOrder
    /\ call[1].account_summary.NetLiquidation = Some(100000)
    /\ call[1].current_positions = << Position("AAPL", "STK", 100, 150) >>
    /\ call[1].action = "BUY" /\ call[1].quantity = 50
    /\ call[1].price = Some(100)
    /\ Len(Named("position_size_check")) = 1
    /\ Named("position_size_check")[1].level = PASS
    /\ Named("position_size_check")[1].details.position_pct = <<2000000, 100000>>

RECURSIVE Exposure(_, _, _, _)
\* |position * avgCost| summed over the first n positions of the book whose
\* security type is in secTypes and whose symbol is in symbols.
Exposure(positions, n, secTypes, symbols) ==
    IF n = 0 THEN 0
    ELSE (IF positions[n].secType \in secTypes /\ positions[n].symbol \in symbols
             THEN Abs(positions[n].position * positions[n].avgCost) ELSE 0)
         + Exposure(positions, n - 1, secTypes, symbols)

AllSecTypes == {"STK", "OPT"}
AllSymbols == {"AAPL", "SGOV", "MSFT"}

\* C11: for a net liquidation other than 0, total_position_check is BLOCK
\* exactly when totalPositionValue / netLiquidation * 100 > 85 (exactly 85
\* passes), where totalPositionValue is the sum of |quantity * averageCost|
\* over all positions, short ones by their absolute value, plus
\* quantity * price when the action is BUY and a price is present; a SELL
\* or an order without price adds nothing.
C11_TotalPositionBlockIff ==
    (IsPlaceOrder
     /\ TagValue(call[1].account_summary, "NetLiquidation", 0) # 0) =>
        LET c == call[1]
            nl == c.account_summary.NetLiquidation[1]
            held == Exposure(c.current_positions, Len(c.current_positions),
                             AllSecTypes, AllSymbols)
            added == IF c.action = "BUY" /\ c.price # None
                     THEN c.quantity * c.price[1] ELSE 0
            t == Named("total_position_check")
        IN  /\ Len(t) = 1
            /\ t[1].level \in {PASS, BLOCK}
            /\ nl > 0 => ((t[1].level = BLOCK) <=>
                             ((held + added) * 100
                                  > risk_max_total_position_pct * nl))
            /\ t[1].details.total_position_pct = <<(held + added) * 100, nl>>
            /\ (c.action = "SELL" \/ c.price = None) =>
                  t[1].details.total_position_pct[1] = held * 100

\* A BUY of 50 at 100 on top of 80,000 held lands on 85% exactly and passes;
\* the short option of the book is counted by its absolute value.
C11_Witness ==
    /\ IsPlaceOrder
    /\ call[1].account_summary.NetLiquidation = Some(100000)
    /\ call[1].action = "BUY" /\ call[1].quantity = 50
    /\ call[1].price = Some(100)
    /\ call[1].current_positions = << Position("MSFT", "STK", 800, 100) >>
    /\ Len(Named("total_position_check")) = 1
    /\ Named("total_position_check")[1].level = PASS
    /\ Named("total_position_check")[1].details.total_position_pct
           = <<8500000, 100000>>

C11_WitnessShort ==
    /\ IsPlaceOrder
    /\ call[1].account_summary.NetLiquidation = Some(100000)
    /\ call[1].action = "SELL"
    /\ call[1].current_positions = << Position("MSFT", "STK", 800, 100),
                                      Position("AAPL", "OPT", -2, 500) >>
    /\ Len(Named("total_position_check")) = 1
    /\ Named("total_position_check")[1].details.total_position_pct
           = <<8100000, 100000>>

\* (price - avgCost) / avgCost * 100 < -risk_max_drawdown_pct for a position
\* of positive average cost.
Breaches(pos, price) ==
    /\ pos.avgCost > 0
    /\ (price - pos.avgCost) * 100 < (0 - risk_max_drawdown_pct) * pos.avgCost

\* C12: the drawdown check is advisory. No drawdown_check result is ever
\* BLOCK; whenever check_all returns for a SELL, its drawdown_check is
\* WARNING exactly when a price is given and a position in the order's
\* symbol has (price - averageCost) / averageCost * 100 < -10, and PASS with
\* no price or no position in the symbol; a returned list whose only
\* adverse finding is the drawdown is not blocking for has_blocking_issues.
C12_DrawdownAdvisory ==
    /\ \A i \in 1..Len(ret.results) :
          ret.results[i].check_name = "drawdown_check"
              => ret.results[i].level \in {PASS, WARNING}
    /\ (IsCall /\ ~ret.raised) =>
          LET c == call[1]
              d == Named("drawdown_check")
              held == InSymbol(c.current_positions, c.symbol)
          IN  /\ Len(d) = (IF c.action = "SELL" THEN 1 ELSE 0)
              /\ c.action = "SELL" =>
                    /\ (d[1].level = WARNING) <=>
                          (/\ c.price # None
                           /\ \E i \in 1..Len(held) :
                                  Breaches(held[i], c.price[1]))
                    /\ (c.price = None \/ held = << >>) => d[1].level = PASS
                    /\ (\A i \in 1..Len(ret.results) :
                            ret.results[i].check_name # "drawdown_check"
                                => ret.results[i].level = PASS)
                          => ~has_blocking_issues(ret.results)

\* A place_order SELL at 100 against 100 shares bought at 150: every other
\* check passes, the drawdown warns, and the list is not blocking.
C12_Witness ==
    /\ IsPlaceOrder /\ ~ret.raised
    /\ call[1].action = "SELL" /\ call[1].price = Some(100)
    /\ call[1].current_positions = << Position("AAPL", "STK", 100, 150) >>
    /\ Len(Named("drawdown_check")) = 1
    /\ Named("drawdown_check")[1].level = WARNING
    /\ Named("drawdown_check")[1].details.drawdown_pct = <<-5000, 150>>
    /\ \A i \in 1..Len(ret.results) :
          ret.results[i].check_name # "drawdown_check"
              => ret.results[i].level = PASS
    /\ ~has_blocking_issues(ret.results)

\* The results of the option-specific group in the list.
OptionGroup(results) ==
    SelectSeq(results, LAMBDA r : r.check_name \in OptionGroupNames)

\* check_all gets as far as the option-specific group: the common checks of
\* place_order, when they run, do not raise.
ReachesOptionGroup(c) ==
    /\ c.contract_type = "OPT"
    /\ \/ c.operation # "place_order"
       \/ TagValue(c.account_summary, "NetLiquidation", 0) # 0

\* C13: for an Option order without option details, the option-specific
\* group is exactly one result, a BLOCK named option_details_check (no
\* option_position_limit, naked-call or naked-put result), it is in the list
\* and not raised, and a list that is returned with it is blocking.
C13_MissingDetailsIsOneBlock ==
    (IsCall /\ ReachesOptionGroup(call[1])
     /\ call[1].option_details = None) =>
        LET g == OptionGroup(ret.results)
        IN  /\ Len(g) = 1
            /\ g[1].check_name = "option_details_check"
            /\ g[1].level = BLOCK
            /\ ret.raised => call[1].action = "SELL"
            /\ ~ret.raised => has_blocking_issues(ret.results)

C13_Witness ==
    /\ IsPlaceOrder /\ ~ret.raised
    /\ call[1].contract_type = "OPT" /\ call[1].option_details = None
    /\ call[1].account_summary.NetLiquidation = Some(100000)
    /\ Len(ret.results) = 6
    /\ ret.results[6].check_name = "option_details_check"
    /\ ret.results[6].level = BLOCK

\* An Option order with details on an account whose net liquidation is not
\* 0: the option-specific group runs through.
IsOptionOrder ==
    /\ IsCall
    /\ call[1].contract_type = "OPT"
    /\ call[1].option_details # None
    /\ TagValue(call[1].account_summary, "NetLiquidation", 0) # 0

\* The shares of stock the book holds in the symbol, position by position.
StockHeld(positions, symbol) ==
    { positions[i].position :
          i \in { j \in 1..Len(positions) :
                      /\ positions[j].symbol = symbol
                      /\ positions[j].secType = "STK" } }

\* C14: for a SELL of call options the group's second result is
\* naked_call_check BLOCK unless the book holds a Stock position in the
\* order's symbol of at least contracts * 100 shares, and covered_call_check
\* PASS if it does: 1 contract against 100 shares is covered, against 0 or
\* 99 shares it is blocked; option positions and stock of another symbol
\* never count as cover.
C14_NakedCallBlockedUnlessCovered ==
    (IsOptionOrder /\ call[1].action = "SELL"
     /\ call[1].option_details[1].right = "C") =>
        LET c == call[1]
            g == OptionGroup(ret.results)
            shares == StockHeld(c.current_positions, c.symbol)
            covered == \E n \in shares : n >= c.quantity * 100
        IN  /\ Len(g) = 2
            /\ g[1].check_name = "option_position_limit"
            /\ IF covered
               THEN g[2].check_name = "covered_call_check" /\ g[2].level = PASS
               ELSE g[2].check_name = "naked_call_check" /\ g[2].level = BLOCK
            /\ (c.quantity = 1 /\ 100 \in shares) => g[2].level = PASS
            /\ (c.quantity = 1 /\ shares \subseteq {0, 99}) => g[2].level = BLOCK
            /\ (\A i \in 1..Len(c.current_positions) :
                    \/ c.current_positions[i].secType = "OPT"
                    \/ c.current_positions[i].symbol # c.symbol)
                  => g[2].level = BLOCK

\* One call sold against exactly 100 shares is a covered call.
C14_Witness ==
    /\ IsOptionOrder /\ call[1].action = "SELL" /\ call[1].quantity = 1
    /\ call[1].option_details[1].right = "C"
    /\ call[1].current_positions = << Position("AAPL", "OPT", 100, 5),
                                      Position("AAPL", "STK", 100, 150) >>
    /\ OptionGroup(ret.results)[2].check_name = "covered_call_check"
    /\ OptionGroup(ret.results)[2].level = PASS

\* One call sold against 100 option contracts and 800 shares of another
\* symbol is naked.
C14_WitnessNaked ==
    /\ IsOptionOrder /\ call[1].action = "SELL" /\ call[1].quantity = 1
    /\ call[1].option_details[1].right = "C"
    /\ call[1].current_positions = << Position("AAPL", "OPT", 100, 5),
                                      Position("MSFT", "STK", 800, 100) >>
    /\ OptionGroup(ret.results)[2].check_name = "naked_call_check"
    /\ OptionGroup(ret.results)[2].level = BLOCK

\* C15: for a SELL of put options naked_put_collateral is BLOCK exactly when
\* availableCollateral < requiredCollateral (equality passes), where
\* requiredCollateral = quantity * strike * 100 and availableCollateral =
\* cashBalance + 0.95 * the sum of |quantity * averageCost| over the
\* positions whose symbol is on the bond allow-list; selling 1 put of strike
\* 100 with cash 5,000 and no bonds is BLOCK.
C15_NakedPutCollateral ==
    (IsOptionOrder /\ call[1].action = "SELL"
     /\ call[1].option_details[1].right = "P") =>
        LET c == call[1]
            g == OptionGroup(ret.results)
            cash == TagValue(c.account_summary, "CashBalance", 0)
            bonds == Exposure(c.current_positions, Len(c.current_positions),
                              AllSecTypes, BondSymbols)
            required == c.quantity * c.option_details[1].strike * 100
        IN  /\ Len(g) = 2
            /\ g[2].check_name = "naked_put_collateral"
            /\ g[2].level \in {PASS, BLOCK}
            /\ (g[2].level = BLOCK) <=>
                  (cash * bond_multiplier_den + bonds * bond_multiplier_num
                       < required * bond_multiplier_den)
            /\ (cash = required /\ bonds = 0) => g[2].level = PASS
            /\ (c.quantity = 1 /\ c.option_details[1].strike = 100
                /\ cash = 5000 /\ bonds = 0)
                  => /\ g[2].level = BLOCK
                     /\ g[2].details.required = 10000
                     /\ g[2].details.available = <<500000, 100>>

\* Cash of exactly 10,000 against 1 put of strike 100: equality passes.
C15_Witness ==
    /\ IsOptionOrder /\ call[1].action = "SELL" /\ call[1].quantity = 1
    /\ call[1].option_details[1].right = "P"
    /\ call[1].option_details[1].strike = 100
    /\ call[1].account_summary.CashBalance = Some(10000)
    /\ call[1].current_positions = << Position("MSFT", "STK", 800, 100) >>
    /\ OptionGroup(ret.results)[2].check_name = "naked_put_collateral"
    /\ OptionGroup(ret.results)[2].level = PASS

\* Cash 5,000 and 5,000 of SGOV give 9,750 against 10,000 required: BLOCK.
C15_WitnessBonds ==
    /\ IsOptionOrder /\ call[1].action = "SELL" /\ call[1].quantity = 1
    /\ call[1].option_details[1].right = "P"
    /\ call[1].account_summary.CashBalance = Some(5000)
    /\ call[1].current_positions = << Position("SGOV", "STK", 50, 100) >>
    /\ OptionGroup(ret.results)[2].level = BLOCK
    /\ OptionGroup(ret.results)[2].details.available = <<975000, 100>>

\* C16: for an Option order with details, option_position_limit is BLOCK
\* exactly when (currentOptionValue + quantity * optionDetails.price * 100)
\* / netLiquidation * 100 > 10 (exactly 10 passes), currentOptionValue being
\* the sum of |quantity * averageCost| over the option positions only; the
\* premium counts 100 shares per contract and stock positions do not count.
C16_OptionLimitBlockIff ==
    IsOptionOrder =>
        LET c == call[1]
            nl == c.account_summary.NetLiquidation[1]
            g == OptionGroup(ret.results)
            premium == IF c.option_details[1].price = None THEN 0
                       ELSE c.option_details[1].price[1]
            held == Exposure(c.current_positions, Len(c.current_positions),
                             {"OPT"}, AllSymbols)
            newValue == held + c.quantity * premium * 100
        IN  /\ Len(g) >= 1
            /\ g[1].check_name = "option_position_limit"
            /\ g[1].level \in {PASS, BLOCK}
            /\ nl > 0 => ((g[1].level = BLOCK) <=>
                             (newValue * 100
                                  > risk_max_option_position_pct * nl))
            /\ g[1].level = BLOCK =>
                  g[1].details.option_pct = <<newValue * 100, nl>>

\* 1,000 of short options held and 1 contract at a premium of 90 make
\* 10,000, exactly 10% of 100,000, which passes although the book also
\* holds 80,000 of stock.
C16_Witness ==
    /\ IsOptionOrder /\ call[1].quantity = 1
    /\ call[1].account_summary.NetLiquidation = Some(100000)
    /\ call[1].option_details[1].price = Some(90)
    /\ call[1].current_positions = << Position("AAPL", "OPT", -2, 500),
                                      Position("MSFT", "STK", 800, 100) >>
    /\ OptionGroup(ret.results)[1].check_name = "option_position_limit"
    /\ OptionGroup(ret.results)[1].level = PASS

\* 50 contracts at a premium of 5 are 25,000, 25% of 100,000: BLOCK.
C16_WitnessBlock ==
    /\ IsOptionOrder /\ call[1].quantity = 50
    /\ call[1].option_details[1].price = Some(5)
    /\ call[1].current_positions = << >>
    /\ OptionGroup(ret.results)[1].level = BLOCK
    /\ OptionGroup(ret.results)[1].details.option_pct = <<2500000, 100000>>

\* C17: volatility_check is never BLOCK; in a place_order evaluation it is
\* WARNING exactly when the option details carry an implied volatility
\* strictly above the threshold of 50, and PASS without option details,
\* without an implied volatility, or with one at or below the threshold.
C17_VolatilityWarningIff ==
    /\ \A i \in 1..Len(ret.results) :
          ret.results[i].check_name = "volatility_check"
              => ret.results[i].level \in {PASS, WARNING}
    /\ (IsPlaceOrder
        /\ TagValue(call[1].account_summary, "NetLiquidation", 0) # 0) =>
          LET od == call[1].option_details
              v == Named("volatility_check")
              iv == IF od = None THEN None ELSE od[1].implied_volatility
          IN  /\ Len(v) = 1
              /\ (v[1].level = WARNING) <=>
                    (iv # None /\ iv[1] > risk_high_volatility_threshold)
              /\ (iv = None \/ iv = Some(risk_high_volatility_threshold))
                    => v[1].level = PASS

\* An implied volatility of exactly 50 passes.
C17_Witness ==
    /\ IsPlaceOrder
    /\ call[1].option_details # None
    /\ call[1].option_details[1].implied_volatility = Some(50)
    /\ Len(Named("volatility_check")) = 1
    /\ Named("volatility_check")[1].level = PASS

\* An implied volatility of 60 warns.
C17_WitnessHigh ==
    /\ IsPlaceOrder
    /\ call[1].option_details # None
    /\ call[1].option_details[1].implied_volatility = Some(60)
    /\ Len(Named("volatility_check")) = 1
    /\ Named("volatility_check")[1].level = WARNING
    /\ Named("volatility_check")[1].details.implied_volatility = 60

\* The indices of the WARNING elements of a list.
WarningIndices(results) ==
    { i \in 1..Len(results) : results[i].level = WARNING }

\* g is the list of the WARNING elements of results in their original
\* relative order: its k-th element is the element of results at the k-th
\* smallest WARNING index.
IsWarningsOf(g, results) ==
    LET idx == WarningIndices(results)
    IN  /\ Len(g) = Cardinality(idx)
        /\ \A k \in 1..Len(g) :
              \E i \in idx :
                  /\ Cardinality({ j \in idx : j < i }) = k - 1
                  /\ g[k] = results[i]

\* C18: get_warnings(r) returns exactly the elements of r whose level is
\* WARNING, in their original relative order (no PASS or BLOCK element, none
\* dropped, none duplicated), and the call leaves r as it was.
C18_GetWarningsFilters ==
    /\ [](gw # None => IsWarningsOf(gw[1], rl))
    /\ [][gw' # gw => rl' = rl]_vars

\* Two different warnings around a BLOCK come back in their order.
C18_Witness ==
    /\ Len(rl) = 4
    /\ rl[1].check_name = "drawdown_check" /\ rl[1].level = WARNING
    /\ rl[2].level = BLOCK
    /\ rl[3].check_name = "volatility_check" /\ rl[3].level = WARNING
    /\ rl[4].level = PASS
    /\ gw = Some(<< rl[1], rl[3] >>)

\* What a finished call handed to its caller: the returned list, or the
\* fact that it raised.
Outcome(ev) ==
    IF ev.st.raised THEN [raised |-> TRUE, results |-> << >>]
    ELSE [raised |-> FALSE, results |-> ev.st.results]

\* C19: check_all is deterministic and keeps no state: two finished calls
\* with identical operation, order, account snapshot, positions and
\* configuration have identical outcomes, the same ordered list of results,
\* whatever other evaluations the manager ran before or in between.
C19_SameInputsSameResults ==
    \A p, q \in Procs :
        (/\ evals[p].step = Done /\ evals[q].step = Done
         /\ evals[p].args = evals[q].args)
            => Outcome(evals[p]) = Outcome(evals[q])

\* Two finished calls with the same arguments and the same eight results,
\* the second made by a caller that had run another evaluation before.
C19_Witness ==
    /\ evals[1].step = Done /\ evals[2].step = Done
    /\ evals[1].args = evals[2].args
    /\ ~evals[1].reused /\ evals[2].reused
    /\ ~evals[1].st.raised
    /\ Len(evals[1].st.results) = 8
    /\ evals[1].st.results = evals[2].st.results

\* C20: concurrent check_all calls on the shared manager do not interfere:
\* under every interleaving of their checks, each call that finishes has
\* the outcome the same call has when run alone.
C20_ConcurrentAsAlone ==
    \A p \in Procs :
        evals[p].step = Done =>
            LET c == evals[p].args[1]
                alone == check_all(cfg, c.operation, c.symbol, c.action,
                                   c.quantity, c.price, c.stop_loss,
                                   c.account_summary, c.current_positions,
                                   c.contract_type, c.option_details)
            IN  /\ evals[p].st.raised = alone.raised
                /\ ~alone.raised => evals[p].st.results = alone.results

\* Two calls with different arguments, both finished, each having run
\* checks while the other was in the middle of its own.
C20_Witness ==
    /\ evals[1].step = Done /\ evals[2].step = Done
    /\ evals[1].overlapped /\ evals[2].overlapped
    /\ evals[1].args # evals[2].args
    /\ ~evals[1].st.raised /\ ~evals[2].st.raised
    /\ Len(evals[1].st.results) = 6
    /\ Len(evals[2].st.results) = 8

\* m is the list of the messages of the results of the given level, in
\* their original relative order, none dropped and none added.
IsMessagesOf(m, results, level) ==
    LET idx == { i \in 1..Len(results) : results[i].level = level }
    IN  /\ Len(m) = Cardinality(idx)
        /\ \A k \in 1..Len(m) :
              \E i \in idx :
                  /\ Cardinality({ j \in idx : j < i }) = k - 1
                  /\ m[k] = results[i].message

Rejected == pc = "done" /\ resp.error = "Order blocked by risk checks"

PastValidation ==
    /\ req # NoRequest
    /\ ~Blank(req.reason)
    /\ req.action \in {"BUY", "SELL"}
    /\ req.order_type \in {"MKT", "LMT", "STP", "STP LMT"}

\* C23: every place_order invocation that got past input validation has
\* recorded exactly one audit entry by the time it returns, whatever the
\* outcome (blocked by risk, rejected for contract type, broker failure or
\* success), and whenever the evaluation completed that entry carries the
\* full list of risk-check results.
C23_ExactlyOneAuditEntry ==
    (pc = "done" /\ PastValidation) =>
        /\ Len(audit) = 1
        /\ (~risk_checks.raised /\ risk_checks.results # << >>)
              => audit[1].risk_checks = risk_checks.results

\* C24: starting from S shares of the underlying and no short calls, after
\* any run of Sell-Call orders each evaluated by check_all against the book
\* as the earlier approved orders left it, the short call contracts times
\* 100 never exceed the shares held.
C24_ShortCallsStayCovered ==
    ShortCalls(broker_positions) * 100 <= SharesHeld(broker_positions)

\* The lists that hold the same positions in some other order.
Reorderings(positions) ==
    LET n == Len(positions)
        shuffles == { f \in [1..n -> 1..n] : \A i, j \in 1..n :
                                                  f[i] = f[j] => i = j }
    IN  { [i \in 1..n |-> positions[f[i]]] : f \in shuffles }

\* C25: for a fixed order, account snapshot and configuration, check_all
\* gives the same outcome (in particular the same position_size_check
\* verdict) for every permutation of current_positions, also when several
\* positions share the order's symbol.
C25_PermutationInvariant ==
    IsCall =>
        \A shuffled \in Reorderings(call[1].current_positions) :
            LET c == call[1]
            IN  check_all(cfg, c.operation, c.symbol, c.action, c.quantity,
                          c.price, c.stop_loss, c.account_summary, shuffled,
                          c.contract_type, c.option_details) = ret

\* The request in hand is an option order that came through submit_order
\* with a limit price (the premium), and its evaluation has returned.
SubmittedOptionEvaluated ==
    /\ PastValidation
    /\ req.contract_type = "OPT"
    /\ req.option_details
           = submit_order_details(Some(20250117), Some(100), Some("C"))
    /\ req.limit_price # None
    /\ ~risk_checks.raised /\ risk_checks.results # << >>

\* C26: for an option order entered through submit_order with a limit price
\* (the premium), option_position_limit counts the order as
\* quantity * premium * 100 on top of the existing option value before the
\* comparison with the limit of 10%, so an order whose own premium value
\* exceeds the limit is blocked.
C26_PremiumCountedForSubmittedOrder ==
    SubmittedOptionEvaluated =>
        LET nl == acct.NetLiquidation[1]
            held == Exposure(book, Len(book), {"OPT"}, AllSymbols)
            newValue == held + req.quantity * req.limit_price[1] * 100
            g == OptionGroup(risk_checks.results)
        IN  /\ Len(g) >= 1
            /\ g[1].check_name = "option_position_limit"
            /\ (g[1].level = BLOCK) <=>
                  (newValue * 100 > risk_max_option_position_pct * nl)

\* C27: the account summary and the position list place_order hands to one
\* check_all call are a coherent snapshot of one broker state: when the
\* evaluation is made, both are what the broker holds, no change of its
\* account or positions having fallen between the two reads or between
\* them and the evaluation.
C27_CoherentSnapshot ==
    pc = "check" =>
        /\ acct = broker_account
        /\ book = get_portfolio(broker_positions)

\* An empty or whitespace-only reason, an action outside {BUY, SELL}, or an
\* order type outside {MKT, LMT, STP, STP LMT}.
InvalidRequest(r) ==
    \/ r.reason \in {"", " "}
    \/ r.action \notin {"BUY", "SELL"}
    \/ r.order_type \notin {"MKT", "LMT", "STP", "STP LMT"}

\* Nothing but the response has been touched by the invocation.
NothingDone ==
    /\ acct = Account(None, None, None)
    /\ book = << >>
    /\ check_price = None
    /\ risk_checks = NotYet
    /\ submitted = << >>
    /\ audit = << >>

\* C28: place_order called with an empty or whitespace-only reason, an
\* action other than BUY or SELL, or an unknown order type returns
\* success = False and leaves everything else as it was: no account or
\* position fetch, no risk evaluation, no broker submission and no audit
\* entry; the step that takes such a call changes nothing but the response.
C28_InvalidInputTouchesNothing ==
    /\ []((pc # "idle" /\ InvalidRequest(req)) =>
             /\ pc = "done"
             /\ resp.returned /\ ~resp.success
             /\ resp.risk_checks = << >>
             /\ NothingDone)
    /\ [][(pc = "idle" /\ InvalidRequest(req')) =>
             UNCHANGED <<acct, book, check_price, risk_checks, submitted,
                         audit, brokerVars, cfg>>]_vars

\* A whitespace-only reason: refused, nothing fetched, evaluated, submitted
\* or logged.
C28_Witness ==
    /\ pc = "done"
    /\ req.reason = " " /\ req.action = "BUY" /\ req.order_type = "LMT"
    /\ resp.returned /\ ~resp.success
    /\ NothingDone


\* C29: over every sequence of get_config and reset_config calls, a Config
\* object that get_config returned satisfies validate_ib_config (ib_account
\* is not empty and 1024 <= ib_port <= 65535): an invalid configuration is
\* an error on every call, also on the call after one that raised, and is
\* never handed to the caller.
C29_ReturnedConfigIsValid ==
    ("value" \in DOMAIN got) =>
        /\ got.value.ib_account # ""
        /\ 1024 <= got.value.ib_port
        /\ got.value.ib_port <= 65535

\* The stored rows and the returned bars that carry one datetime
StoredAt(symbol, bar_size, dt) ==
    { r \in RowsOf(kline_data, symbol, bar_size) :
         normalize_datetime(r.datetime) = dt }
ReturnedAt(result, dt) ==
    { i \in 1..Len(result) : normalize_datetime(result[i].datetime) = dt }

IncrementalServed ==
    /\ wrapper.pc = "done"
    /\ wrapper.path = "incremental"
    /\ wrapper.new_data # << >>
    /\ ~_has_error(wrapper.new_data)

\* C30: when the wrapper has served a request through the stale-cache
\* (incremental) path with a successful fetch, the list it returned agrees
\* with what the cache then holds for the symbol and bar size: at every
\* datetime the returned bar is the stored bar, also at a datetime that is
\* in both the old cache and the newly fetched data.
C30_ReturnedAgreesWithCache ==
    IncrementalServed =>
        \A d \in 1..MaxDay :
            LET dt == Stamp(d, "iso")
                stored == StoredAt(wrapper.params.symbol,
                                   wrapper.params.bar_size, dt)
                returned == ReturnedAt(wrapper.result, dt)
            IN  /\ (stored = {}) <=> (returned = {})
                /\ \A r \in stored : \A i \in returned :
                      wrapper.result[i].close = r.close

====
